---- MODULE Spec2Model ----
(***************************************************************************)
(* Model of the Handlebars-to-Rust template compiler of dry-handlebars:    *)
(* the expression scanner (parser/expression.rs), the expression tokenizer *)
(* (parser/expression_tokenizer.rs), the block helpers (hbs/block.rs) and  *)
(* the compile session (hbs/compiler.rs).                                  *)
(*                                                                         *)
(* Template text and every &str of the program are TLA+ strings; byte      *)
(* offsets are 0-based as in the source (templates are ASCII).  rust.code  *)
(* is the sequence of the pieces pushed onto it, in order: its             *)
(* concatenation is the Rust String.                                       *)
(***************************************************************************)
EXTENDS Integers, Sequences, FiniteSets, TLC

(***************************************************************************)
(* &str primitives of the Rust standard library, as the sources use them.  *)
(***************************************************************************)

\* let x = v; F(x): a local of the source bound once to its value
Bind(v, F(_)) == F(v)

\* &s[a .. b]
Slice(s, a, b) == SubSeq(s, a + 1, b)

\* &s[a ..]
SliceFrom(s, a) == SubSeq(s, a + 1, Len(s))

\* s.starts_with(p)
StartsWith(s, p) == Len(p) <= Len(s) /\ SubSeq(s, 1, Len(p)) = p

\* s.ends_with(p)
EndsWith(s, p) == Len(p) <= Len(s) /\ SubSeq(s, Len(s) - Len(p) + 1, Len(s)) = p

RECURSIVE FindFrom(_, _, _)
FindFrom(s, p, i) ==
    IF i + Len(p) > Len(s) THEN -1
    ELSE IF SubSeq(s, i + 1, i + Len(p)) = p THEN i
    ELSE FindFrom(s, p, i + 1)

\* s.find(p): the byte offset of the first match, -1 for None
Find(s, p) == FindFrom(s, p, 0)

RECURSIVE RFindFrom(_, _, _)
RFindFrom(s, p, i) ==
    IF i < 0 THEN -1
    ELSE IF SubSeq(s, i + 1, i + Len(p)) = p THEN i
    ELSE RFindFrom(s, p, i - 1)

\* s.rfind(p): the byte offset of the last match, -1 for None
RFind(s, p) == RFindFrom(s, p, Len(s) - Len(p))

\* char::is_whitespace on the characters templates are drawn from
IsWhitespace(c) == c \in {" ", "\n", "\t", "\r"}

RECURSIVE TrimStart(_)
\* s.trim_start()
TrimStart(s) ==
    IF Len(s) > 0 /\ IsWhitespace(SubSeq(s, 1, 1)) THEN TrimStart(SubSeq(s, 2, Len(s)))
    ELSE s

RECURSIVE TrimEnd(_)
\* s.trim_end()
TrimEnd(s) ==
    IF Len(s) > 0 /\ IsWhitespace(SubSeq(s, Len(s), Len(s))) THEN TrimEnd(SubSeq(s, 1, Len(s) - 1))
    ELSE s

\* s.trim()
Trim(s) == TrimStart(TrimEnd(s))

RECURSIVE TrimStartMatches(_, _)
TrimStartMatches(s, c) ==
    IF Len(s) > 0 /\ SubSeq(s, 1, 1) = c THEN TrimStartMatches(SubSeq(s, 2, Len(s)), c)
    ELSE s

RECURSIVE TrimEndMatches(_, _)
TrimEndMatches(s, c) ==
    IF Len(s) > 0 /\ SubSeq(s, Len(s), Len(s)) = c THEN TrimEndMatches(SubSeq(s, 1, Len(s) - 1), c)
    ELSE s

\* s.trim_matches(c)
TrimMatches(s, c) == TrimStartMatches(TrimEndMatches(s, c), c)

Letters == "abcdefghijklmnopqrstuvwxyzABCDEFGHIJKLMNOPQRSTUVWXYZ"

\* char::is_alphabetic on the characters templates are drawn from
IsAlphabetic(c) == Len(c) = 1 /\ Find(Letters, c) # -1

(***************************************************************************)
(* Expression scanner: parser/expression.rs                                *)
(***************************************************************************)

\* Ok(None) of Expression::from
NoExpression ==
    [res |-> "none", expression_type |-> "", prefix |-> "", content |-> "",
     postfix |-> "", raw |-> "", msg |-> ""]

\* Err(ParseError) of the scanner, by the message's leading words
ExpressionErr(m) == [NoExpression EXCEPT !.res = "err", !.msg = m]

\* a slice index out of range: the thread panics
ExpressionPanic == [NoExpression EXCEPT !.res = "panic", !.msg = "slice index out of range"]

\* Ok(Some(Expression{..}))
SomeExpression(t, p, c, post, r) ==
    [res |-> "some", expression_type |-> t, prefix |-> p, content |-> c,
     postfix |-> post, raw |-> r, msg |-> ""]

\* nibble: Ok(end), or -1 for Err(unclosed)
nibble(src, start, len) ==
    LET end == start + len
    IN  IF end >= Len(src) THEN -1 ELSE end

\* Expression::close as it would be were the ~ before the closing delimiter taken
\* off the content and the text after the expression left as it is
Expression_close_untrimmed(expression_type, preffix, start, end) ==
    LET pos0 == Find(start, end)
    IN  IF pos0 = -1 THEN ExpressionErr("unclosed block")
        ELSE IF pos0 = 0 THEN ExpressionErr("empty block")
        ELSE LET pos == IF Slice(start, pos0 - 1, pos0) = "~" THEN pos0 - 1 ELSE pos0
             IN  SomeExpression(expression_type, preffix, Slice(start, 0, pos),
                                SliceFrom(start, pos0 + Len(end)), Slice(start, 0, pos + Len(end)))

\* Expression::close
Expression_close(expression_type, preffix, start, end) ==
    LET pos0 == Find(start, end)
    IN  IF pos0 = -1 THEN ExpressionErr("unclosed block")
        ELSE IF pos0 = 0 THEN ExpressionErr("empty block")
        ELSE LET tilde == Slice(start, pos0 - 1, pos0) = "~"
                 postfix0 == SliceFrom(start, pos0 + Len(end))
                 postfix == IF tilde THEN TrimStart(postfix0) ELSE postfix0
                 pos == IF tilde THEN pos0 - 1 ELSE pos0
             IN  SomeExpression(expression_type, preffix, Slice(start, 0, pos),
                                postfix, Slice(start, 0, pos + Len(end)))

\* Expression::check_comment
check_comment(preffix, start) ==
    IF Find(start, "--") = 0
    THEN Expression_close("Comment", preffix, SliceFrom(start, 2), "--}}")
    ELSE Expression_close("Comment", preffix, start, "}}")

RECURSIVE find_closing_escape_loop(_, _, _)
\* the loop of Expression::find_closing_escape, entered with (postfix, from)
find_closing_escape_loop(open, postfix, from) ==
    LET candidate == Find(postfix, "{{{{/")
    IN  IF candidate = -1 THEN ExpressionErr("unclosed block")
        ELSE LET start == candidate + 5
                 remains == SliceFrom(postfix, start)
                 close == Find(remains, "}}}}")
             IN  IF close = -1 THEN ExpressionErr("unclosed block")
                 ELSE LET end == start + close + 4
                      IN  IF Slice(remains, 0, close) = open.content
                          THEN SomeExpression("Escaped", open.prefix,
                                              Slice(open.postfix, 0, from + candidate),
                                              SliceFrom(postfix, end), open.raw)
                          ELSE IF from + end > Len(postfix) THEN ExpressionPanic
                          ELSE find_closing_escape_loop(open, SliceFrom(postfix, from + end),
                                                        from + end)

\* Expression::find_closing_escape
find_closing_escape(open) == find_closing_escape_loop(open, open.postfix, 0)

\* Expression::from
Expression_from(src) ==
    LET start == Find(src, "{{")
    IN  IF start = -1 THEN NoExpression
        ELSE LET second0 == nibble(src, start, 3)
        IN  IF second0 = -1 THEN ExpressionErr("unclosed block")
        ELSE IF start > 0 /\ Slice(src, start - 1, start) = "\\"
             THEN Expression_close("Escaped", Slice(src, 0, start - 1),
                                   SliceFrom(src, second0 - 1), "}}")
        ELSE LET trim == Slice(src, start + 2, second0) = "~"
                 prefix == IF trim THEN TrimEnd(Slice(src, 0, start)) ELSE Slice(src, 0, start)
                 second == IF trim THEN nibble(src, second0, 1) ELSE second0
        IN  IF second = -1 THEN ExpressionErr("unclosed block")
        ELSE LET marker == IF trim THEN Slice(src, start + 3, second)
                           ELSE Slice(src, start + 2, second0)
        IN  CASE marker = "{" ->
                 LET next == nibble(src, second, 1)
                 IN  IF next = -1 THEN ExpressionErr("unclosed block")
                     ELSE LET char == Slice(src, second, next)
                     IN  IF char = "{"
                         THEN LET next2 == nibble(src, next, 1)
                              IN  IF next2 = -1 THEN ExpressionErr("unclosed block")
                                  ELSE LET tilde == Slice(src, next, next2) = "~"
                                           open == Expression_close("Escaped",
                                                      IF tilde THEN TrimEnd(prefix) ELSE prefix,
                                                      SliceFrom(src, IF tilde THEN next2 ELSE next),
                                                      "}}}}")
                                       IN  IF open.res = "some" THEN find_closing_escape(open)
                                           ELSE open
                         ELSE IF char = "~"
                         THEN Expression_close("Raw", TrimEnd(prefix), SliceFrom(src, next), "}}}")
                         ELSE Expression_close("Raw", prefix, SliceFrom(src, second), "}}}")
              [] marker = "!" -> check_comment(prefix, SliceFrom(src, second))
              [] marker = "#" -> Expression_close("Open", prefix, SliceFrom(src, second), "}}")
              [] marker = "/" -> Expression_close("Close", prefix, SliceFrom(src, second), "}}")
              [] OTHER -> Expression_close("HtmlEscaped", prefix, SliceFrom(src, second - 1), "}}")

\* Expression::next
Expression_next(expr) == Expression_from(expr.postfix)

(***************************************************************************)
(* Expression tokenizer: parser/expression_tokenizer.rs                    *)
(***************************************************************************)

\* Ok(None) of parse
NoToken ==
    [res |-> "none", token_type |-> "", value |-> "", tail |-> "", raw |-> "", msg |-> ""]

\* Err(ParseError) of the tokenizer
TokenErr(m) == [NoToken EXCEPT !.res = "err", !.msg = m]

\* Ok(Some(Token{..})); raw is the span of TokenType::SubExpression(raw)
SomeToken(t, v, tl, r) ==
    [res |-> "some", token_type |-> t, value |-> v, tail |-> tl, raw |-> r, msg |-> ""]

RECURSIVE find_closing_loop(_, _, _)
\* the for loop of find_closing over rest.char_indices(), at index i with count
find_closing_loop(rest, i, count) ==
    IF i >= Len(rest) THEN -1
    ELSE LET c == Slice(rest, i, i + 1)
             count2 == IF c = "(" THEN count + 1 ELSE IF c = ")" THEN count - 1 ELSE count
         IN  IF count2 = 0 THEN i + 1 ELSE find_closing_loop(rest, i + 1, count2)

\* find_closing: Ok(offset of the closing bracket), or -1 for Err(unmatched brackets)
find_closing(src) == find_closing_loop(SliceFrom(src, 1), 0, 1)

RECURSIVE find_end_of_string_loop(_, _, _)
\* the for loop of find_end_of_string over cliped.char_indices(), at index i
find_end_of_string_loop(cliped, i, escaped) ==
    IF i >= Len(cliped) THEN -1
    ELSE LET c == Slice(cliped, i, i + 1)
         IN  IF c = "\\" THEN find_end_of_string_loop(cliped, i + 1, ~escaped)
             ELSE IF c = "\"" /\ ~escaped THEN i + 2
             ELSE find_end_of_string_loop(cliped, i + 1, escaped)

\* find_end_of_string: Ok(offset after the closing quote), or -1 for Err(unterminated string)
find_end_of_string(src) == find_end_of_string_loop(SliceFrom(src, 1), 0, FALSE)

RECURSIVE find_end_loop(_, _)
find_end_loop(src, i) ==
    IF i >= Len(src) THEN Len(src)
    ELSE IF Slice(src, i, i + 1) \in {" ", "(", "\n", "\r", "\t"} THEN i
    ELSE find_end_loop(src, i + 1)

\* find_end
find_end(src) == find_end_loop(src, 0)

\* invalid_variable_name
invalid_variable_name(src) ==
    IF StartsWith(src, "../") THEN FALSE
    ELSE IF Len(src) = 0 THEN FALSE
    ELSE LET c == Slice(src, 0, 1) IN ~(IsAlphabetic(c) \/ c = "_")

\* parse
parse(src) ==
    IF Len(src) = 0 THEN NoToken
    ELSE LET c == Slice(src, 0, 1)
    IN  CASE c = "@" ->
             LET end == find_end(src)
             IN  SomeToken("PrivateVariable", Slice(src, 1, end), TrimStart(SliceFrom(src, end)), "")
          [] c = "(" ->
             LET end == find_closing(src)
             IN  IF end = -1 THEN TokenErr("unmatched brackets")
                 ELSE SomeToken("SubExpression", Slice(src, 1, end),
                                TrimStart(SliceFrom(src, end + 1)), Slice(src, 0, end))
          [] c = "\"" ->
             LET end == find_end_of_string(src)
             IN  IF end = -1 THEN TokenErr("unterminated string")
                 ELSE SomeToken("Literal", Slice(src, 0, end), TrimStart(SliceFrom(src, end)), "")
          [] OTHER ->
             LET end == find_end(src)
             IN  SomeToken(IF invalid_variable_name(src) THEN "Literal" ELSE "Variable",
                           Slice(src, 0, end), TrimStart(SliceFrom(src, end)), "")

\* Token::first
Token_first(src) == parse(Trim(src))

\* Token::next
Token_next(token) == parse(token.tail)

(***************************************************************************)
(* Compile session: hbs/compiler.rs                                        *)
(***************************************************************************)

\* Option<T>
None == [some |-> FALSE, v |-> ""]
Some(x) == [some |-> TRUE, v |-> x]

\* enum Local
Local_As(name) == [t |-> "As", name |-> name]
Local_This == [t |-> "This", name |-> ""]
Local_None == [t |-> "None", name |-> ""]

\* Rust::new
Rust_new == [using |-> {}, code |-> <<>>]

\* rust.code.push_str(s) / rust.code.push(c): code is the sequence of the pieces
\* pushed (pushing "" leaves the String as it is)
Push(rust, s) == IF s = "" THEN rust ELSE [rust EXCEPT !.code = Append(@, s)]

\* rust.using.insert(u) as it would be were nothing inserted
Use_nothing(rust, u) == rust

\* rust.using.insert(u)
Use(rust, u) == [rust EXCEPT !.using = @ \cup {u}]

\* a Box<dyn Block>: which struct of block.rs (or Root), with its fields
\* (this: Root; local: IfSome, With, Each; indexer, has_else: Each)
MkBlock(kind, this, local, indexer, has_else) ==
    [kind |-> kind, this |-> this, local |-> local, indexer |-> indexer, has_else |-> has_else]

\* Root{this}
Root(this) == MkBlock("Root", this, Local_None, None, FALSE)

\* Scope{opened, depth}
Scope(opened, depth) == [opened |-> opened, depth |-> depth]

\* Result<()> of the emitting functions: Ok, Err(message), a panic of the thread
\* ("panic"), or a loop that never exits ("loops"); rust is rust as written so far
Ok(rust) == [st |-> "ok", rust |-> rust, msg |-> ""]
Err(rust, m) == [st |-> "err", rust |-> rust, msg |-> m]
Panic(rust, m) == [st |-> "panic", rust |-> rust, msg |-> m]
Loops(rust, m) == [st |-> "loops", rust |-> rust, msg |-> m]

\* r? then f(rust): the ? operator and sequencing
Then(r, F(_)) == IF r.st = "ok" THEN F(r.rust) ELSE r

\* Compile::new
Compile_new(this) == <<Scope(Root(this), 0)>>

\* append_with_depth
append_with_depth(depth, var, rust) == Push(Push(Push(rust, var), "_"), ToString(depth))

\* Block::this
Block_this(block) == IF block.kind = "Root" THEN block.this ELSE None

\* Block::local
Block_local(block) ==
    IF block.kind \in {"IfSome", "With", "Each"} THEN block.local ELSE Local_None

RECURSIVE find_scope_loop(_, _, _)
\* the while loop of Compile::find_scope
find_scope_loop(open_stack, scope, local) ==
    IF StartsWith(local, "../")
    THEN IF scope.depth = 0
         THEN [st |-> "err", msg |-> "unable to resolve scope", local |-> local, scope |-> scope]
         ELSE IF scope.depth - 1 >= Len(open_stack)
         THEN [st |-> "panic", msg |-> "unwrap on None", local |-> local, scope |-> scope]
         ELSE find_scope_loop(open_stack, open_stack[scope.depth], SliceFrom(local, 3))
    ELSE [st |-> "ok", msg |-> "", local |-> local, scope |-> scope]

\* find_scope as it would be were the "../" segments stripped and the innermost
\* scope kept
find_scope_innermost(open_stack, var) ==
    IF Len(open_stack) = 0
    THEN [st |-> "panic", msg |-> "unwrap on None", local |-> var, scope |-> Scope(Root(None), 0)]
    ELSE [find_scope_loop(open_stack, open_stack[Len(open_stack)], var)
              EXCEPT !.scope = open_stack[Len(open_stack)]]

\* Compile::find_scope (open_stack[i + 1] is the source's open_stack[i])
find_scope(open_stack, var) ==
    IF Len(open_stack) = 0
    THEN [st |-> "panic", msg |-> "unwrap on None", local |-> var, scope |-> Scope(Root(None), 0)]
    ELSE find_scope_loop(open_stack, open_stack[Len(open_stack)], var)

\* Compile::resolve_local: <<matched, buffer>>
resolve_local(depth, var, local, rust) ==
    IF StartsWith(var, local)
    THEN LET len == Len(local)
         IN  IF Len(var) > len
             THEN IF Slice(var, len, len + 1) # "."
                  THEN <<FALSE, rust>>
                  ELSE <<TRUE, Push(append_with_depth(depth, local, rust), SliceFrom(var, len))>>
             ELSE <<TRUE, append_with_depth(depth, local, rust)>>
    ELSE <<FALSE, rust>>

RECURSIVE resolve_var(_, _, _, _)
\* Compile::resolve_var
resolve_var(open_stack, var, scope, rust) ==
    IF scope.depth = 0
    THEN LET this == Block_this(scope.opened)
         IN  Push(IF this.some THEN Push(Push(rust, this.v), ".") ELSE rust, var)
    ELSE LET local == Block_local(scope.opened)
             m == CASE local.t = "As" -> resolve_local(scope.depth, var, local.name, rust)
                    [] local.t = "This" ->
                       LET r == Push(Push(rust, "this_"), ToString(scope.depth))
                       IN  <<TRUE, IF var # "this" THEN Push(Push(r, "."), var) ELSE r>>
                    [] OTHER -> <<FALSE, rust>>
         IN  IF m[1] THEN m[2]
             ELSE LET parent == open_stack[scope.depth]
                      this == Block_this(scope.opened)
                  IN  IF this.some
                      THEN LET r == resolve_var(open_stack, this.v, parent, rust)
                           IN  IF var # this.v THEN Push(Push(r, "."), var) ELSE r
                      ELSE resolve_var(open_stack, var, parent, rust)

\* Each::write_map_var
write_map_var(block, depth, suffix, rust) ==
    Push(append_with_depth(depth, IF block.local.t = "As" THEN block.local.name ELSE "this", rust),
         suffix)

\* resolve_private as it would be were the default of the trait to write the name
\* of the private variable
resolve_private_by_name(block, depth, name, rust) ==
    IF block.kind = "Each"
    THEN CASE name = "index" ->
              IF block.indexer.some THEN Ok(Push(rust, block.indexer.v))
              ELSE Panic(rust, "indexer.unwrap() on None")
           [] name = "key" -> Ok(write_map_var(block, depth, ".0", rust))
           [] name = "value" -> Ok(write_map_var(block, depth, ".1", rust))
           [] OTHER -> Err(rust, "unexpected variable")
    ELSE Ok(Push(rust, name))

\* Block::resolve_private: the default of the trait, and Each's
resolve_private(block, depth, name, rust) ==
    IF block.kind = "Each"
    THEN CASE name = "index" ->
              IF block.indexer.some THEN Ok(Push(rust, block.indexer.v))
              ELSE Panic(rust, "indexer.unwrap() on None")
           [] name = "key" -> Ok(write_map_var(block, depth, ".0", rust))
           [] name = "value" -> Ok(write_map_var(block, depth, ".1", rust))
           [] OTHER -> Err(rust, "unexpected variable")
    ELSE Err(rust, "not expected")

RECURSIVE resolve(_, _, _, _, _)
RECURSIVE write_var(_, _, _)
RECURSIVE resolve_helper_loop(_, _, _)

\* Compile::resolve_sub_expression
resolve_sub_expression(open_stack, value, rust) == resolve(open_stack, "", value, "", rust)

\* Compile::write_var
write_var(open_stack, rust, var) ==
    CASE var.token_type = "PrivateVariable" ->
         Bind(find_scope(open_stack, var.value), LAMBDA f :
              IF f.st = "ok" THEN resolve_private(f.scope.opened, f.scope.depth, f.local, rust)
              ELSE [st |-> f.st, rust |-> rust, msg |-> f.msg])
      [] var.token_type = "Variable" ->
         Bind(find_scope(open_stack, var.value), LAMBDA f :
              IF f.st = "ok" THEN Ok(resolve_var(open_stack, f.local, f.scope, rust))
              ELSE [st |-> f.st, rust |-> rust, msg |-> f.msg])
      [] var.token_type = "Literal" -> Ok(Push(rust, var.value))
      [] OTHER -> resolve_sub_expression(open_stack, var.value, rust)

\* Compile::resolve_lookup
resolve_lookup(open_stack, prefix, postfix, args, rust) ==
    Then(write_var(open_stack, rust, args), LAMBDA r1 :
    Bind(Push(r1, prefix), LAMBDA r2 :
    Bind(Token_next(args), LAMBDA next :
         CASE next.res = "err" -> Err(r2, next.msg)
           [] next.res = "none" -> Err(r2, "lookup expects 2 arguments")
           [] OTHER -> Then(write_var(open_stack, r2, next), LAMBDA r3 : Ok(Push(r3, postfix))))))

\* the loop of Compile::resolve_helper over the remaining arguments
resolve_helper_loop(open_stack, args, rust) ==
    Bind(Token_next(args), LAMBDA next :
         CASE next.res = "err" -> Err(rust, next.msg)
           [] next.res = "none" -> Ok(Push(rust, ")"))
           [] OTHER -> Then(write_var(open_stack, Push(rust, ", "), next), LAMBDA r :
                            resolve_helper_loop(open_stack, next, r)))

\* Compile::resolve_helper
resolve_helper(open_stack, name, args, rust) ==
    CASE name.value = "lookup" -> resolve_lookup(open_stack, "[", "]", args, rust)
      [] name.value = "try_lookup" -> resolve_lookup(open_stack, ".get(", ")", args, rust)
      [] OTHER -> Then(write_var(open_stack, Push(Push(rust, name.value), "("), args), LAMBDA r :
                       resolve_helper_loop(open_stack, args, r))

\* Compile::resolve, of Expression{prefix, content, postfix}
resolve(open_stack, prefix, content, postfix, rust) ==
    Bind(Token_first(content), LAMBDA token :
         CASE token.res = "err" -> Err(rust, token.msg)
           [] token.res = "none" -> Err(rust, "expected token")
           [] OTHER ->
              Bind(Push(rust, prefix), LAMBDA r0 :
              Bind(Token_next(token), LAMBDA args :
              Then(IF token.token_type = "SubExpression"
                   THEN resolve_sub_expression(open_stack, token.value, r0)
                   ELSE CASE args.res = "err" -> Err(r0, args.msg)
                          [] args.res = "some" -> resolve_helper(open_stack, token, args, r0)
                          [] OTHER -> write_var(open_stack, r0, token),
                   LAMBDA r : Ok(Push(r, postfix))))))

\* Compile::write_local
write_local(open_stack, rust, local) ==
    append_with_depth(Len(open_stack), IF local.t = "As" THEN local.name ELSE "this", rust)

(***************************************************************************)
(* Block helpers: hbs/block.rs                                             *)
(***************************************************************************)

\* Result<Box<dyn Block>> of a factory: a Result with the block it opened
Opened(r, block) == [st |-> r.st, rust |-> r.rust, msg |-> r.msg, block |-> block]

\* strip_pipes: token.next() is the same token on every pass of the loop, so a
\* token "|" passes through `continue` for ever
strip_pipes(token) ==
    Bind(Token_next(token), LAMBDA next :
         CASE next.res = "err" -> [st |-> "err", msg |-> next.msg, name |-> ""]
           [] next.res = "none" -> [st |-> "err", msg |-> "expected variable after as", name |-> ""]
           [] next.value = "|" -> [st |-> "loops", msg |-> "strip_pipes", name |-> ""]
           [] OTHER -> [st |-> "ok", msg |-> "", name |-> TrimMatches(next.value, "|")])

\* read_local
read_local(token) ==
    Bind(Token_next(token), LAMBDA next :
         CASE next.res = "err" -> [st |-> "err", msg |-> next.msg, local |-> Local_None]
           [] next.res = "none" -> [st |-> "ok", msg |-> "", local |-> Local_This]
           [] next.value = "as" ->
              Bind(strip_pipes(next), LAMBDA n :
                   [st |-> n.st, msg |-> n.msg, local |-> Local_As(n.name)])
           [] OTHER -> [st |-> "err", msg |-> "unexpected token", local |-> Local_None])

\* IfOrUnless::new
IfOrUnless_new(prefix, open_stack, token, rust) ==
    Bind(Token_next(token), LAMBDA var :
    Bind(MkBlock("IfOrUnless", None, Local_None, None, FALSE), LAMBDA block :
         CASE var.res = "err" -> Opened(Err(rust, var.msg), block)
           [] var.res = "none" -> Opened(Err(rust, "expected variable after"), block)
           [] OTHER ->
              Opened(Then(write_var(open_stack, Push(Use(rust, "AsBool"), prefix), var),
                          LAMBDA r : Ok(Push(r, ".as_bool(){"))), block)))

\* handle_else as it would be were the then-branch left open: the else
\* branch opens inside it
IfOrUnless_handle_else_nested(rust) == Ok(Push(rust, "else{"))

\* impl Block for IfOrUnless, impl Block for IfSome: handle_else
IfOrUnless_handle_else(rust) == Ok(Push(rust, "}else{"))

\* IfSome::new, from the statement after read_local: next is the variable's
\* token, l the answer of read_local
IfSome_new_local(by_ref, open_stack, next, l, rust) ==
    IF l.st # "ok"
    THEN Opened([st |-> l.st, rust |-> rust, msg |-> l.msg],
                MkBlock("IfSome", None, Local_None, None, FALSE))
    ELSE Opened(Then(write_var(open_stack,
                               Push(Push(write_local(open_stack, Push(rust, "if let Some("),
                                                     l.local), ") = "),
                                    IF by_ref THEN "&" ELSE ""),
                               next),
                     LAMBDA r : Ok(Push(r, "{"))),
                MkBlock("IfSome", None, l.local, None, FALSE))

\* IfSome::new, from the statement after token.next()
IfSome_new_next(by_ref, open_stack, next, rust) ==
    CASE next.res = "err" ->
         Opened(Err(rust, next.msg), MkBlock("IfSome", None, Local_None, None, FALSE))
      [] next.res = "none" ->
         Opened(Err(rust, "expected variable after"),
                MkBlock("IfSome", None, Local_None, None, FALSE))
      [] OTHER -> IfSome_new_local(by_ref, open_stack, next, read_local(next), rust)

\* IfSome::new
IfSome_new(by_ref, open_stack, token, rust) ==
    IfSome_new_next(by_ref, open_stack, Token_next(token), rust)

\* With::new, from the statement after read_local: next is the variable's
\* token, l the answer of read_local
With_new_local(by_ref, open_stack, next, l, rust) ==
    IF l.st # "ok"
    THEN Opened([st |-> l.st, rust |-> rust, msg |-> l.msg],
                MkBlock("With", None, Local_None, None, FALSE))
    ELSE Opened(Then(write_var(open_stack,
                               Push(Push(write_local(open_stack, Push(rust, "{let "), l.local),
                                         " = "),
                                    IF by_ref THEN "&" ELSE ""),
                               next),
                     LAMBDA r : Ok(Push(r, ";"))),
                MkBlock("With", None, l.local, None, FALSE))

\* With::new, from the statement after token.next()
With_new_next(by_ref, open_stack, next, rust) ==
    CASE next.res = "err" ->
         Opened(Err(rust, next.msg), MkBlock("With", None, Local_None, None, FALSE))
      [] next.res = "none" ->
         Opened(Err(rust, "expected variable after"),
                MkBlock("With", None, Local_None, None, FALSE))
      [] OTHER -> With_new_local(by_ref, open_stack, next, read_local(next), rust)

\* With::new
With_new(by_ref, open_stack, token, rust) ==
    With_new_next(by_ref, open_stack, Token_next(token), rust)

\* WithFty::open of parser/block.rs, from the statement after token_clone.next():
\* types is compile.variable_types
WithFty_open_next(types, open_stack, token, var, rust) ==
    CASE var.res = "err" ->
         Opened(Err(rust, var.msg), MkBlock("With", None, Local_None, None, FALSE))
      [] /\ var.res = "some"
         /\ var.value \in DOMAIN types
         /\ Find(types[var.value], "Option") # -1 -> IfSome_new(TRUE, open_stack, token, rust)
      [] OTHER -> With_new(TRUE, open_stack, token, rust)

\* WithFty::open of parser/block.rs
WithFty_open(types, open_stack, token, rust) ==
    WithFty_open_next(types, open_stack, token, Token_next(token), rust)

RECURSIVE contains_indexer_loop(_, _)
\* the while loop of contains_indexer: depth after stripping the "../" of prefix
contains_indexer_loop(prefix, depth) ==
    IF StartsWith(prefix, "../") THEN contains_indexer_loop(SliceFrom(prefix, 3), depth - 1)
    ELSE depth

\* contains_indexer
contains_indexer(src, depth) ==
    LET pos == Find(src, "index")
    IN  IF pos = -1 THEN FALSE
        ELSE LET start == RFind(Slice(src, 0, pos), "@")
             IN  IF start = -1 THEN FALSE
                 ELSE contains_indexer_loop(Slice(src, start + 1, pos), depth) = 0

\* Result<bool> of the lookahead scans: Ok(true) and Ok(false) are st "true" and
\* "false"; "err" and "panic" are the scanner's; "loops" is a pass of the while
\* loop that leaves exp as it found it (`continue` skips exp = expr.next())
Scanned(st, msg) == [st |-> st, msg |-> msg]

RECURSIVE check_for_indexer_loop(_, _)
\* the while loop of check_for_indexer
check_for_indexer_loop(exp, depth) ==
    CASE exp.res = "none" -> Scanned("false", "")
      [] exp.res \in {"err", "panic"} -> Scanned(exp.res, exp.msg)
      [] exp.expression_type \in {"Comment", "Escaped"} -> Scanned("loops", "check_for_indexer")
      [] exp.expression_type = "Open" ->
         IF contains_indexer(exp.content, depth - 1) THEN Scanned("true", "")
         ELSE check_for_indexer_loop(Expression_next(exp), depth + 1)
      [] exp.expression_type = "Close" ->
         IF depth - 1 = 0 THEN Scanned("false", "")
         ELSE check_for_indexer_loop(Expression_next(exp), depth - 1)
      [] OTHER ->
         IF contains_indexer(exp.content, depth - 1) THEN Scanned("true", "")
         ELSE check_for_indexer_loop(Expression_next(exp), depth)

\* check_for_indexer
check_for_indexer(src) == check_for_indexer_loop(Expression_from(src), 1)

RECURSIVE check_for_else_loop(_, _)
\* the while loop of check_for_else
check_for_else_loop(exp, depth) ==
    CASE exp.res = "none" -> Scanned("false", "")
      [] exp.res \in {"err", "panic"} -> Scanned(exp.res, exp.msg)
      [] exp.expression_type \in {"Comment", "Escaped"} -> Scanned("loops", "check_for_else")
      [] exp.expression_type = "Open" -> check_for_else_loop(Expression_next(exp), depth + 1)
      [] exp.expression_type = "Close" ->
         IF depth - 1 = 0 THEN Scanned("false", "")
         ELSE check_for_else_loop(Expression_next(exp), depth - 1)
      [] OTHER ->
         IF exp.content = "else" /\ depth = 1 THEN Scanned("true", "")
         ELSE check_for_else_loop(Expression_next(exp), depth)

\* check_for_else
check_for_else(src) == check_for_else_loop(Expression_from(src), 1)

\* Each::new, after both lookahead scans answered Ok: next is the iterable's
\* token, found and has_else the answers, local the name read_local returned
Each_new_emit(by_ref, open_stack, next, found, has_else, local, rust) ==
    LET indexer == IF found THEN Some("i_" \o ToString(Len(open_stack))) ELSE None
        r1 == IF found THEN Push(Push(Push(rust, "let mut "), indexer.v), " = 0;") ELSE rust
        r2 == Push(r1, IF has_else THEN "{let mut empty = true;" ELSE "")
        r3 == Push(write_local(open_stack, Push(r2, "for "), local), " in ")
        r4 == Push(r3, IF by_ref THEN "&" ELSE "")
    IN  Opened(Then(write_var(open_stack, r4, next), LAMBDA r :
                    Ok(Push(Push(r, "{"), IF has_else THEN "empty = false;" ELSE ""))),
               MkBlock("Each", None, local, indexer, has_else))

\* Each::new, from the statement after check_for_indexer
Each_new_scanned(by_ref, open_stack, next, found, l, else_found, rust) ==
    LET none == MkBlock("Each", None, Local_None, None, FALSE)
        r1 == IF found.st = "true"
              THEN Push(Push(Push(rust, "let mut "), "i_" \o ToString(Len(open_stack))), " = 0;")
              ELSE rust
    IN  IF found.st \notin {"true", "false"}
        THEN Opened([st |-> found.st, rust |-> rust, msg |-> found.msg], none)
        ELSE IF l.st # "ok" THEN Opened([st |-> l.st, rust |-> r1, msg |-> l.msg], none)
        ELSE IF else_found.st \notin {"true", "false"}
        THEN Opened([st |-> else_found.st, rust |-> r1, msg |-> else_found.msg], none)
        ELSE Each_new_emit(by_ref, open_stack, next, found.st = "true",
                           else_found.st = "true", l.local, rust)

\* Each::new, from the statement after token.next(); postfix is expression.postfix
Each_new_next(by_ref, open_stack, next, postfix, rust) ==
    CASE next.res = "err" ->
         Opened(Err(rust, next.msg), MkBlock("Each", None, Local_None, None, FALSE))
      [] next.res = "none" ->
         Opened(Err(rust, "expected variable after"), MkBlock("Each", None, Local_None, None, FALSE))
      [] OTHER ->
         Each_new_scanned(by_ref, open_stack, next, check_for_indexer(postfix), read_local(next),
                          check_for_else(postfix), rust)

\* Each::new
Each_new(by_ref, open_stack, token, postfix, rust) ==
    Each_new_next(by_ref, open_stack, Token_next(token), postfix, rust)

\* Each::write_indexer
write_indexer(block, rust) ==
    IF block.indexer.some THEN Push(Push(rust, block.indexer.v), "+=1;") ELSE rust

\* handle_else as it would be were the else branch not guarded by the flag
Each_handle_else_unguarded(block, rust) == Ok(Push(Push(write_indexer(block, rust), "}"), "{"))

\* impl Block for Each: handle_else
Each_handle_else(block, rust) == Ok(Push(write_indexer(block, rust), "} if empty {"))

\* handle_close as it would be were the wrapper of the emptiness flag left open
Each_handle_close_single(block, rust) ==
    IF block.has_else THEN Push(rust, "}") ELSE Push(write_indexer(block, rust), "}")

\* impl Block for Each: handle_close
Each_handle_close(block, rust) ==
    IF block.has_else THEN Push(rust, "}}") ELSE Push(write_indexer(block, rust), "}")

\* Block::handle_close: the default of the trait, and Each's
handle_close(block, rust) ==
    IF block.kind = "Each" THEN Each_handle_close(block, rust) ELSE Push(rust, "}")

\* handle_else as it would be were the default of the trait IfOrUnless's
handle_else_everywhere(block, rust) ==
    IF block.kind = "Each" THEN Each_handle_else(block, rust) ELSE IfOrUnless_handle_else(rust)

\* Block::handle_else: the default of the trait, IfOrUnless's, IfSome's and Each's
handle_else(block, rust) ==
    CASE block.kind \in {"IfOrUnless", "IfSome"} -> IfOrUnless_handle_else(rust)
      [] block.kind = "Each" -> Each_handle_else(block, rust)
      [] OTHER -> Err(rust, "else not expected here")

\* add_builtins: the names of the block map
add_builtins ==
    {"if", "unless", "if_some", "if_some_ref", "with", "with_ref", "each", "each_ref"}

\* BlockFactory::open of the factory add_builtins registers under name
BlockFactory_open(name, open_stack, token, postfix, rust) ==
    CASE name \in {"if", "unless"} ->
         IfOrUnless_new(IF name = "if" THEN "if " ELSE "if !", open_stack, token, rust)
      [] name \in {"if_some", "if_some_ref"} ->
         IfSome_new(name = "if_some_ref", open_stack, token, rust)
      [] name \in {"with", "with_ref"} -> With_new(name = "with_ref", open_stack, token, rust)
      [] OTHER -> Each_new(name = "each_ref", open_stack, token, postfix, rust)

(***************************************************************************)
(* Compiler: hbs/compiler.rs                                               *)
(***************************************************************************)

\* enum PendingWrite: Raw(text), Expression((expression, uses, display)) with the
\* expression's content, Format((raw, format, content))
PendingWrite_Raw(text) ==
    [kind |-> "Raw", text |-> text, content |-> "", uses |-> "", display |-> ""]
PendingWrite_Expression(content, uses, display) ==
    [kind |-> "Expression", text |-> "", content |-> content, uses |-> uses, display |-> display]
PendingWrite_Format(format, content) ==
    [kind |-> "Format", text |-> format, content |-> content, uses |-> "", display |-> ""]

USE_AS_DISPLAY == "AsDisplay"
USE_AS_DISPLAY_HTML == "AsDisplayHtml"

\* Options.write_var_name of the compile sessions modelled
write_var_name == "f"

\* escape as it would be were nothing replaced
escape_nothing(content) == content

RECURSIVE escape(_)
\* Compiler::escape: the replacement of every match of [\\"{}]
escape(content) ==
    IF Len(content) = 0 THEN ""
    ELSE LET c == Slice(content, 0, 1)
             e == CASE c \in {"{", "}"} -> c \o c
                    [] c \in {"\\", "\""} -> "\\" \o c
                    [] OTHER -> c
         IN  e \o escape(SliceFrom(content, 1))

RECURSIVE commit_pending_format(_, _, _)
\* the first for loop of commit_pending, from pending[i]
commit_pending_format(pending, i, rust) ==
    IF i > Len(pending) THEN rust
    ELSE LET p == pending[i]
         IN  commit_pending_format(pending, i + 1,
                 CASE p.kind = "Raw" -> Push(rust, escape(p.text))
                   [] p.kind = "Expression" -> Push(rust, "{}")
                   [] OTHER -> Push(rust, p.text))

RECURSIVE commit_pending_args(_, _, _, _)
\* the second for loop of commit_pending, from pending[i]
commit_pending_args(open_stack, pending, i, rust) ==
    IF i > Len(pending) THEN Ok(rust)
    ELSE LET p == pending[i]
         IN  CASE p.kind = "Expression" ->
                  Then(resolve(open_stack, ", ", p.content, p.display, rust), LAMBDA r :
                       commit_pending_args(open_stack, pending, i + 1, Use(r, p.uses)))
               [] p.kind = "Format" ->
                  Then(resolve(open_stack, ", ", p.content, "", rust), LAMBDA r :
                       commit_pending_args(open_stack, pending, i + 1, r))
               [] OTHER -> commit_pending_args(open_stack, pending, i + 1, rust)

RECURSIVE commit_pending_each(_, _, _)
\* commit_pending as it would be were every pending write given a write!
\* of its own
commit_pending_each(pending, open_stack, rust) ==
    IF pending = <<>> THEN Ok(rust)
    ELSE Then(commit_pending_args(open_stack, <<Head(pending)>>, 1,
                  Push(commit_pending_format(<<Head(pending)>>, 1,
                           Push(Push(Push(rust, "write!("), write_var_name), ", \"")), "\"")),
              LAMBDA r : commit_pending_each(Tail(pending), open_stack, Push(r, ")?;")))

\* Compiler::commit_pending (the caller takes pending as cleared when it is Ok)
commit_pending(pending, open_stack, rust) ==
    IF pending = <<>> THEN Ok(rust)
    ELSE LET r1 == Push(Push(Push(rust, "write!("), write_var_name), ", \"")
             r2 == Push(commit_pending_format(pending, 1, r1), "\"")
         IN  Then(commit_pending_args(open_stack, pending, 1, r2), LAMBDA r : Ok(Push(r, ")?;")))

\* Compiler::select_write: Result<PendingWrite>
select_write(content, uses, postfix) ==
    LET asExpression == [st |-> "ok", msg |-> "",
                         write |-> PendingWrite_Expression(content, uses, postfix)]
        failed(m) == [st |-> "err", msg |-> m, write |-> PendingWrite_Raw("")]
    IN  Bind(Token_first(content), LAMBDA token :
        CASE token.res = "err" -> failed(token.msg)
          [] token.res = "some" /\ token.token_type = "Variable" ->
             IF token.value # "format" THEN asExpression
             ELSE Bind(Token_next(token), LAMBDA pattern :
                      CASE pattern.res = "err" -> failed(pattern.msg)
                        [] pattern.res = "none" -> asExpression
                        [] OTHER ->
                           Bind(Token_next(pattern), LAMBDA value :
                               IF value.res # "some" THEN failed("format requires 2 arguments")
                               ELSE IF /\ pattern.token_type = "Literal"
                                       /\ StartsWith(pattern.value, "\"")
                                       /\ EndsWith(pattern.value, "\"")
                               THEN [st |-> "ok", msg |-> "",
                                     write |-> PendingWrite_Format(
                                         Slice(pattern.value, 1, Len(pattern.value) - 1),
                                         value.value)]
                               ELSE failed("first argument of format must be a string literal")))
          [] OTHER -> asExpression)

\* Compile::handle_else
Compile_handle_else(open_stack, rust) ==
    IF Len(open_stack) = 0 THEN Err(rust, "else not expected here")
    ELSE handle_else(open_stack[Len(open_stack)].opened, rust)

\* Compile::close as it would be were the closing code that of the outermost open
\* block
Compile_close_outermost(open_stack, rust) ==
    IF Len(open_stack) = 0
    THEN [st |-> "err", rust |-> rust, msg |-> "Mismatched block helper", open_stack |-> open_stack]
    ELSE LET outermost == IF Len(open_stack) >= 2 THEN 2 ELSE 1
         IN  [st |-> "ok", msg |-> "",
              rust |-> handle_close(open_stack[outermost].opened, rust),
              open_stack |-> SubSeq(open_stack, 1, Len(open_stack) - 1)]

\* Compile::close: the Result, with the open stack it leaves
Compile_close(open_stack, rust) ==
    IF Len(open_stack) = 0
    THEN [st |-> "err", rust |-> rust, msg |-> "Mismatched block helper", open_stack |-> open_stack]
    ELSE [st |-> "ok", msg |-> "",
          rust |-> handle_close(open_stack[Len(open_stack)].opened, rust),
          open_stack |-> SubSeq(open_stack, 1, Len(open_stack) - 1)]

\* Compile::open: the Result, with the open stack it leaves
Compile_open(open_stack, content, postfix, rust) ==
    LET failed(r) == [st |-> r.st, rust |-> r.rust, msg |-> r.msg, open_stack |-> open_stack]
    IN  Bind(Token_first(content), LAMBDA token :
        CASE token.res = "err" -> failed(Err(rust, token.msg))
          [] token.res = "none" -> failed(Err(rust, "expected token"))
          [] token.value \notin add_builtins -> failed(Err(rust, "unsupported block helper"))
          [] OTHER ->
             Bind(BlockFactory_open(token.value, open_stack, token, postfix, rust), LAMBDA o :
                 IF o.st # "ok" THEN failed(o)
                 ELSE [st |-> "ok", rust |-> o.rust, msg |-> "",
                       open_stack |-> Append(open_stack, Scope(o.block, Len(open_stack)))]))

(***************************************************************************)
(* Compiler::compile as a state machine: one action per pass of its while  *)
(* loop, by what the pass does with the expression.                        *)
(***************************************************************************)

VARIABLES
    src,            \* the template given to compile
    root_var_name,  \* Options.root_var_name
    variable_types, \* Options.variable_types (parser): variable name -> type, as text
    pc,             \* "start", "loop" (at the head of the while loop), or how compile
                    \* ended: "Ok", "Err", "Panic", "Loops" (a loop that never exits)
    expression,     \* compile's `expression`
    rest,           \* compile's `rest`
    pending,        \* compile's `pending`
    open_stack,     \* compile.open_stack
    rust,           \* compile's `rust`
    msg             \* the ParseError's message when pc = "Err"

vars == <<src, root_var_name, variable_types, pc, expression, rest, pending, open_stack, rust,
          msg>>

RECURSIVE Text(_)
\* the concatenation of a sequence of strings (of rust.code: the Rust String)
Text(code) == IF code = <<>> THEN "" ELSE Head(code) \o Text(Tail(code))

\* the templates made of at most n of the fragments F, in any order
Concats(F, n) == {Text(p) : p \in [1 .. n -> F \cup {""}]}

\* HashMap::new() of Options.variable_types: no variable has a type
NoTypes == [name \in {} |-> ""]

\* the state when compile is called on one of the templates
InitWith(templates, roots) ==
    /\ src \in templates
    /\ root_var_name \in roots
    /\ variable_types = NoTypes
    /\ pc = "start"
    /\ expression = NoExpression
    /\ rest = ""
    /\ pending = <<>>
    /\ open_stack = <<>>
    /\ rust = Rust_new
    /\ msg = ""

\* how compile ends on a Result that is not Ok
Outcome(st) ==
    CASE st = "err" -> "Err" [] st = "panic" -> "Panic" [] st = "loops" -> "Loops" [] OTHER -> "Ok"

Ended == pc \in {"Ok", "Err", "Panic", "Loops"}

\* compile, up to the head of its while loop
Start_from(first) ==
    /\ open_stack' = Compile_new(root_var_name)
    /\ rust' = Rust_new
    /\ pending' = <<>>
    /\ rest' = src
    /\ IF first.res \in {"err", "panic"}
       THEN pc' = Outcome(first.res) /\ msg' = first.msg /\ expression' = expression
       ELSE pc' = "loop" /\ msg' = "" /\ expression' = first

\* compile, up to the head of its while loop: Compile::new, Rust::new and
\* `expression = Expression::from(src)?`
Start ==
    /\ pc = "start"
    /\ Start_from(Expression_from(src))
    /\ UNCHANGED <<src, root_var_name, variable_types>>

\* pending after `if !prefix.is_empty() { pending.push(PendingWrite::Raw(prefix)) }`
WithPrefix(expr) ==
    IF expr.prefix # "" THEN Append(pending, PendingWrite_Raw(expr.prefix)) ELSE pending

\* the end of a pass: r is the Result of the match arm, next is expr.next() of
\* `expression = expr.next()?` (reached when r is Ok)
Continue(expr, r, next, pending2, open_stack2) ==
    /\ rust' = r.rust
    /\ pending' = pending2
    /\ open_stack' = open_stack2
    /\ rest' = expr.postfix
    /\ IF r.st # "ok"
       THEN pc' = Outcome(r.st) /\ msg' = r.msg /\ expression' = expression
       ELSE IF next.res \in {"err", "panic"}
       THEN pc' = Outcome(next.res) /\ msg' = next.msg /\ expression' = expression
       ELSE pc' = "loop" /\ msg' = "" /\ expression' = next
    /\ UNCHANGED <<src, root_var_name, variable_types>>

\* the arms Raw, HtmlEscaped, Escaped and Comment of the match: w is the Result of
\* select_write ("skip": nothing is pushed), p1 is pending after the prefix
Queue_arm(expr, p1, w) ==
    Continue(expr, IF w.st \in {"ok", "skip"} THEN Ok(rust) ELSE Err(rust, w.msg),
             Expression_next(expr), IF w.st = "ok" THEN Append(p1, w.write) ELSE p1, open_stack)

\* a pass over an expression that only queues pending writes (Raw, HtmlEscaped other
\* than else, Escaped) or does nothing (Comment)
Queue ==
    /\ pc = "loop"
    /\ expression.res = "some"
    /\ expression.expression_type \in {"Raw", "Escaped", "Comment", "HtmlEscaped"}
    /\ ~(expression.expression_type = "HtmlEscaped" /\ expression.content = "else")
    /\ Queue_arm(expression, WithPrefix(expression),
                 CASE expression.expression_type = "Raw" ->
                      select_write(expression.content, USE_AS_DISPLAY, ".as_display()")
                   [] expression.expression_type = "HtmlEscaped" ->
                      select_write(expression.content, USE_AS_DISPLAY_HTML, ".as_display_html()")
                   [] expression.expression_type = "Escaped" ->
                      [st |-> "ok", msg |-> "", write |-> PendingWrite_Raw(expression.content)]
                   [] OTHER -> [st |-> "skip", msg |-> "", write |-> PendingWrite_Raw("")])

\* a Result<()> from a Result that carries more (the open stack, the block)
Plain(r) == [st |-> r.st, rust |-> r.rust, msg |-> r.msg]

\* the arms that commit first: c is the Result of commit_pending(p1), done that of
\* the call that follows it, stack2 the open stack that call leaves
Commit_arm(expr, p1, c, done, stack2) ==
    IF c.st # "ok" THEN Continue(expr, c, NoExpression, p1, open_stack)
    ELSE Continue(expr, done, Expression_next(expr), <<>>, stack2)

\* the arm of {{else}}, after commit_pending answered c
Else_arm(expr, p1, c) ==
    Commit_arm(expr, p1, c, Compile_handle_else(open_stack, c.rust), open_stack)

\* a pass over {{else}}
Else ==
    /\ pc = "loop"
    /\ expression.res = "some"
    /\ expression.expression_type = "HtmlEscaped" /\ expression.content = "else"
    /\ Else_arm(expression, WithPrefix(expression),
                commit_pending(WithPrefix(expression), open_stack, rust))

\* the arms Open and Close, after commit_pending answered c: o is the Result of
\* Compile::open or Compile::close with the open stack it leaves
Block_arm(expr, p1, c, o) == Commit_arm(expr, p1, c, Plain(o), o.open_stack)

\* the arm Open, after commit_pending answered c
Open_arm(expr, p1, c) ==
    Block_arm(expr, p1, c, Compile_open(open_stack, expr.content, expr.postfix, c.rust))

\* a pass over a block's opening expression
Open ==
    /\ pc = "loop"
    /\ expression.res = "some"
    /\ expression.expression_type = "Open"
    /\ Open_arm(expression, WithPrefix(expression),
                commit_pending(WithPrefix(expression), open_stack, rust))

\* the arm Close, after commit_pending answered c
Close_arm(expr, p1, c) == Block_arm(expr, p1, c, Compile_close(open_stack, c.rust))

\* a pass over a block's closing expression
Close ==
    /\ pc = "loop"
    /\ expression.res = "some"
    /\ expression.expression_type = "Close"
    /\ Close_arm(expression, WithPrefix(expression),
                 commit_pending(WithPrefix(expression), open_stack, rust))

\* the end of compile: c is the Result of the last commit_pending, of p1
Finish_commit(p1, c) ==
    /\ rust' = c.rust
    /\ pending' = IF c.st = "ok" THEN <<>> ELSE p1
    /\ pc' = Outcome(c.st)
    /\ msg' = c.msg

\* pending after `if !rest.is_empty() { pending.push(PendingWrite::Raw(rest)) }`
WithRest == IF rest # "" THEN Append(pending, PendingWrite_Raw(rest)) ELSE pending

\* compile after its while loop: the rest of the template, the last commit, Ok(rust)
Finish ==
    /\ pc = "loop"
    /\ expression.res = "none"
    /\ Finish_commit(WithRest, commit_pending(WithRest, open_stack, rust))
    /\ UNCHANGED <<src, root_var_name, variable_types, expression, rest, open_stack>>

Next == Start \/ Queue \/ Else \/ Open \/ Close \/ Finish

(***************************************************************************)
(* Specification: compile sessions over bounded families of templates.     *)
(***************************************************************************)

\* the number of fragments a template of BlockTemplates is made of, at most
MaxParts == 3

\* block opens and closes, an else, a comment, literal text and an interpolation
BlockFragments ==
    {"{{#if x}}", "{{#each xs}}", "{{#with a as | n |}}", "{{/if}}", "{{/each}}", "{{else}}",
     "{{! c}}", "A", "{{y}}"}

\* every template of at most MaxParts of these fragments, well formed or not
BlockTemplates == Concats(BlockFragments, MaxParts)

\* the number of fragments between two block boundaries, at most
MaxSegParts == 2

\* literal text, an HTML-escaped and a raw interpolation
TextFragments == {"A", "{{y}}", "{{{z}}}"}

Segments == Concats(TextFragments, MaxSegParts)

\* {{#if x}}A{{/if}}, {{#if x}}A{{else}}B{{/if}} and the same of unless
IfTemplates ==
    {o[1] \o a \o e \o o[2] :
        o \in {<<"{{#if x}}", "{{/if}}">>, <<"{{#unless x}}", "{{/unless}}">>},
        a \in Segments, e \in {""} \cup {"{{else}}" \o b : b \in Segments}}

\* the number of fragments after the literal B of an each body, at most
MaxBodyParts == 2

\* what follows the literal of an each body: a use of the index, a raw
\* interpolation of a variable named else, a nested if with an else of its own
BodyFragments == {"{{@index}}", "{{{else}}}", "{{#if x}}C{{else}}D{{/if}}", "{{y}}"}

\* the else branches of an each block: none, one, one that uses the index, two
EachElses == {"", "{{else}}E", "{{else}}E{{@index}}", "{{else}}E{{else}}F"}

\* {{#each xs}}B...{{/each}} and {{#each xs}}B...{{else}}E...{{/each}}
EachTemplates ==
    {"{{#each xs}}B" \o b \o e \o "{{/each}}" :
        b \in Concats(BodyFragments, MaxBodyParts), e \in EachElses}

\* the number of fragments of the body of an each block of IndexTemplates, at most
MaxIndexParts == 2

\* uses of @index: of this loop, of this loop as the second argument of a helper,
\* of a nested loop, of this loop from inside a nested loop; and literal text
IndexFragments ==
    {"{{@index}}", "{{lookup indexes @index}}", "{{#each ys}}{{@index}}{{/each}}",
     "{{#each ys}}{{@../index}}{{/each}}", "B"}

IndexTemplates ==
    {"{{#each xs}}" \o b \o "{{/each}}" : b \in Concats(IndexFragments, MaxIndexParts)}

\* the number of blocks open around the reference of a template of ScopeTemplates
MaxDepth == 2

\* the blocks of ScopeTemplates: <<open, close>>
ScopeBlocks ==
    {<<"{{#with a}}", "{{/with}}">>, <<"{{#each xs}}", "{{/each}}">>, <<"{{#if x}}", "{{/if}}">>}

RECURSIVE Ups(_)
\* k segments ../
Ups(k) == IF k = 0 THEN "" ELSE "../" \o Ups(k - 1)

RECURSIVE Nested(_, _, _)
\* inner inside the blocks bs[i], .., bs[1], bs[1] the outermost
Nested(bs, i, inner) ==
    IF i = 0 THEN inner ELSE Nested(bs, i - 1, bs[i][1] \o inner \o bs[i][2])

\* a reference with k segments ../ inside n nested blocks, n >= k
ScopeTemplates ==
    UNION {{Nested(bs, n, "{{" \o Ups(k) \o "c}}") : bs \in [1 .. n -> ScopeBlocks], k \in 0 .. n} :
           n \in 0 .. MaxDepth}

\* the number of fragments of the body of a raw block of RawTemplates, at most
MaxRawParts == 2

\* text, a close tag of another name, a nested {{ sequence
RawFragments == {"x", "{{{{/b}}}}", "{{y}}"}

\* {{{{a}}}}...{{{{/a}}}} and what follows it
RawTemplates ==
    {"{{{{a}}}}" \o b \o "{{{{/a}}}}" \o t : b \in Concats(RawFragments, MaxRawParts), t \in {"", "T"}}

\* the number of fragments of the body of a template of CommentTemplates, at most
MaxCommentParts == 3

\* text and the two forms of a comment, the long one holding {{ and }}
CommentFragments == {"A", "B", "{{! c}}", "{{!-- {{c}} --}}"}

\* text and comments at the top level, inside an if and inside an each
CommentTemplates ==
    {w[1] \o b \o w[2] : w \in {<<"", "">>, <<"{{#if x}}", "{{/if}}">>,
                                <<"{{#each xs}}", "{{/each}}">>},
                         b \in Concats(CommentFragments, MaxCommentParts)}

\* the length of a template of LiteralTemplates, at most
MaxLiteralLen == 3

\* a letter and the characters Compiler::escape replaces
LiteralChars == {"a", "{", "}", "\"", "\\"}

\* the templates that hold no {{ delimiter
LiteralTemplates == {t \in Concats(LiteralChars, MaxLiteralLen) : Find(t, "{{") = -1}

\* what stands between the delimiters of a backslash-escaped {{..}}
EscapedBodies == {"y", "#if x", "! c", "a b"}

\* a {{..}} preceded by a backslash, with the text before and after it
EscapeTemplates ==
    {p \o "\\{{" \o b \o "}}" \o t : p \in {"", "A"}, b \in EscapedBodies, t \in {"", "B"}}

\* the expressions of TrimTemplates by kind: the opening delimiter, the content,
\* the closing delimiter, what precedes the template's text and what follows it
TrimKinds ==
    {[kind |-> "interpolation", open |-> "{{", content |-> "y", close |-> "}}",
      before |-> "", after |-> ""],
     [kind |-> "raw", open |-> "{{{", content |-> "z", close |-> "}}}", before |-> "", after |-> ""],
     [kind |-> "comment", open |-> "{{", content |-> "! c", close |-> "}}",
      before |-> "", after |-> ""],
     [kind |-> "comment", open |-> "{{", content |-> "!-- {{c}} ", close |-> "--}}",
      before |-> "", after |-> ""],
     [kind |-> "open", open |-> "{{", content |-> "#if x", close |-> "}}",
      before |-> "", after |-> "{{/if}}"],
     [kind |-> "close", open |-> "{{", content |-> "/if", close |-> "}}",
      before |-> "{{#if x}}", after |-> ""]}

\* the text before an expression, with what is left of it without its trailing
\* whitespace
TextsBefore == {<<"A", "A">>, <<"A ", "A">>, <<"A\t\n", "A">>, <<" \n", "">>}

\* the text after an expression, with what is left of it without its leading
\* whitespace
TextsAfter == {<<"B", "B">>, <<" B", "B">>, <<"\n\t B ", "B ">>, <<"\n ", "">>}

\* the template of an expression of kind k between the texts p and t, with a ~ after
\* its opening delimiter (lt) and before its closing delimiter (rt)
TrimTemplate(k, p, t, lt, rt) ==
    k.before \o p \o k.open \o (IF lt THEN "~" ELSE "") \o k.content
             \o (IF rt THEN "~" ELSE "") \o k.close \o t \o k.after

TrimTemplates ==
    {TrimTemplate(k, p[1], t[1], lt, rt) :
        k \in TrimKinds, p \in TextsBefore, t \in TextsAfter, lt \in BOOLEAN, rt \in BOOLEAN}

\* an opening delimiter of every form whose close never occurs
UnclosedForms ==
    {"{{", "{{y", "{{y}", "{{~y", "{{{", "{{{z", "{{{z}}", "{{{{", "{{{{a", "{{{{a}}}}",
     "{{{{a}}}}x", "{{{{a}}}}x{{{{/a", "{{{{a}}}}{{{{/b}}}}", "{{{{a}}}}{{{{/b}}}}{{{{/b}}}}",
     "{{!", "{{! c", "{{!--", "{{!-- c", "{{!-- c }}", "{{#", "{{#if x", "{{/", "{{/if",
     "\\{{", "\\{{y"}

\* what stands before the unclosed delimiter
UnclosedPrefixes == {"", "A", "{{y}}", "{{#if x}}B{{/if}}", "{{#if x}}"}

UnclosedTemplates == {p \o u : p \in UnclosedPrefixes, u \in UnclosedForms}

\* leading tokens of a block's opening expression: the built-in names, and names
\* that are none of them
HelperNames ==
    {"if", "unless", "if_some", "if_some_ref", "with", "with_ref", "each", "each_ref",
     "If", "EACH", "iff", "i", "each_", "withref", "else", "lookup", "@if", "(if)", "\"if\""}

\* a block opened under each of the names, at the top level and inside an if
HelperTemplates ==
    {w[1] \o "{{#" \o n \o " x}}A{{/" \o n \o "}}" \o w[2] :
        w \in {<<"", "">>, <<"{{#if c}}", "{{/if}}">>}, n \in HelperNames}

\* what an else can stand in: the template text that opens and closes it, the
\* code of the opening, of the branch flip ("" where else is not supported) and
\* of the closing
ElseScopes ==
    {[open |-> "", close |-> "", opening |-> "", flip |-> "", closing |-> ""],
     [open |-> "{{#if x}}B{{/if}}", close |-> "",
      opening |-> "if self.x.as_bool(){write!(f, \"B\")?;}", flip |-> "", closing |-> ""],
     [open |-> "{{#with a}}", close |-> "{{/with}}",
      opening |-> "{let this_1 = self.a;", flip |-> "", closing |-> "}"],
     [open |-> "{{#with_ref a}}", close |-> "{{/with_ref}}",
      opening |-> "{let this_1 = &self.a;", flip |-> "", closing |-> "}"],
     [open |-> "{{#if x}}{{#with a as |n|}}", close |-> "{{/with}}{{/if}}",
      opening |-> "if self.x.as_bool(){{let n_2 = self.a;", flip |-> "", closing |-> "}}"],
     [open |-> "{{#if x}}", close |-> "{{/if}}",
      opening |-> "if self.x.as_bool(){", flip |-> "}else{", closing |-> "}"],
     [open |-> "{{#unless x}}", close |-> "{{/unless}}",
      opening |-> "if !self.x.as_bool(){", flip |-> "}else{", closing |-> "}"],
     [open |-> "{{#if_some x}}", close |-> "{{/if_some}}",
      opening |-> "if let Some(this_1) = self.x{", flip |-> "}else{", closing |-> "}"],
     [open |-> "{{#if_some_ref x}}", close |-> "{{/if_some_ref}}",
      opening |-> "if let Some(this_1) = &self.x{", flip |-> "}else{", closing |-> "}"],
     [open |-> "{{#each xs}}", close |-> "{{/each}}",
      opening |-> "{let mut empty = true;for this_1 in self.xs{empty = false;",
      flip |-> "} if empty {", closing |-> "}}"],
     [open |-> "{{#each_ref xs}}", close |-> "{{/each_ref}}",
      opening |-> "{let mut empty = true;for this_1 in &self.xs{empty = false;",
      flip |-> "} if empty {", closing |-> "}}"],
     [open |-> "{{#with a}}{{#if x}}", close |-> "{{/if}}{{/with}}",
      opening |-> "{let this_1 = self.a;if this_1.x.as_bool(){", flip |-> "}else{",
      closing |-> "}}"]}

\* the literal text before and after the else
ElseTexts == {"", "A"}

\* the template of an else in the scope s between the texts a and b
ElseTemplate(s, a, b) == s.open \o a \o "{{else}}" \o b \o s.close

ElseTemplates == {ElseTemplate(s, a, b) : s \in ElseScopes, a \in ElseTexts, b \in ElseTexts}

\* what a path stands in: <<before, after>>, the path c or the private index
PathForms ==
    {<<"{{", "c}}">>, <<"{{{", "c}}}">>, <<"{{#if ", "c}}B{{/if}}">>, <<"{{@", "index}}">>,
     <<"{{lookup ", "c 0}}">>}

\* a path with k segments ../ inside n < k nested blocks, and such a path outside
\* any block after a close that matches no open
ParentTemplates ==
    UNION {{s \o Nested(bs, n, r[1] \o Ups(k) \o r[2]) :
                s \in {"", "A"}, bs \in [1 .. n -> ScopeBlocks], k \in n + 1 .. n + 2,
                r \in PathForms} :
           n \in 0 .. MaxDepth}
    \cup {"{{/if}}" \o r[1] \o Ups(k) \o r[2] : k \in 1 .. 2, r \in PathForms}

\* the number of arguments of a lookup of LookupTemplates, at most
MaxArguments == 3

RECURSIVE LookupArguments(_)
\* k arguments, each after a space: a, b, ..
LookupArguments(k) ==
    IF k = 0 THEN "" ELSE LookupArguments(k - 1) \o " " \o SubSeq("abcdefgh", k, k)

\* the call of a lookup helper on k arguments, as an interpolation, as a raw
\* interpolation (raw) or in a sub-expression (sub)
LookupTemplate(name, k, form) ==
    CASE form = "raw" -> "{{{" \o name \o LookupArguments(k) \o "}}}"
      [] form = "sub" -> "{{(" \o name \o LookupArguments(k) \o ")}}"
      [] OTHER -> "{{" \o name \o LookupArguments(k) \o "}}"

LookupTemplates ==
    {LookupTemplate(name, k, form) :
        name \in {"lookup", "try_lookup"}, k \in 0 .. MaxArguments,
        form \in {"interpolation", "raw", "sub"}}

\* the number of parts the body of a string of StringTemplates is made of, at most
MaxStringParts == 2

\* the parts of a string's body: a letter, a space, an escaped quote, an escaped
\* backslash, another backslash sequence; none holds an unescaped quote
StringParts == {"a", " ", "\\\"", "\\\\", "\\n"}

\* a helper called on a string with the given body, with or without its closing
\* quote, and on what follows the string
StringTemplate(body, closed, tail) ==
    "{{h \"" \o body \o (IF closed THEN "\"" ELSE "") \o tail \o "}}"

StringTemplates ==
    {StringTemplate(body, closed, tail) :
        body \in Concats(StringParts, MaxStringParts), closed \in BOOLEAN, tail \in {"", " b"}}

\* text, the two interpolations, a format call, and blocks with and without a
\* boolean coercion
CapabilityFragments ==
    {"", "A", "{{y}}", "{{{z}}}", "{{format \"{}\" v}}", "{{#if x}}B{{/if}}",
     "{{#unless x}}{{{z}}}{{/unless}}", "{{#with a}}B{{/with}}", "{{#each xs}}{{y}}{{/each}}"}

CapabilityTemplates == {a \o b : a \in CapabilityFragments, b \in CapabilityFragments}

\* closes with and without an open before them, and opens on a variable and on a
\* literal
DepthFragments == {"", "{{/if}}", "{{#if x}}", "{{#if \"a\"}}", "{{#each xs}}", "{{#with a}}"}

DepthTemplates == {a \o b \o c : a \in DepthFragments, b \in DepthFragments, c \in DepthFragments}

\* the blocks that take an else
ElseTakers ==
    {[open |-> "{{#if x}}", close |-> "{{/if}}"],
     [open |-> "{{#unless x}}", close |-> "{{/unless}}"],
     [open |-> "{{#if_some x}}", close |-> "{{/if_some}}"],
     [open |-> "{{#each xs}}", close |-> "{{/each}}"]}

\* bodies of such a block: elses is the number of {{else}} of the block itself
ElseBodies ==
    {[body |-> "A", elses |-> 0],
     [body |-> "A{{else}}B", elses |-> 1],
     [body |-> "{{#if y}}A{{else}}B{{/if}}{{else}}C", elses |-> 1],
     [body |-> "A{{else}}{{#if y}}B{{else}}C{{/if}}", elses |-> 1],
     [body |-> "A{{else}}B{{else}}C", elses |-> 2],
     [body |-> "A{{else}}{{else}}C", elses |-> 2],
     [body |-> "A{{else}}B{{#if y}}D{{/if}}{{else}}C", elses |-> 2]}

SecondElseTemplates == {t.open \o b.body \o t.close : t \in ElseTakers, b \in ElseBodies}

\* bodies of an each block with its own else, the else of a nested block and the
\* raw interpolation of a variable named else
LookaheadBodies ==
    {"A", "A{{else}}B", "{{else}}", "{{#if y}}A{{else}}B{{/if}}", "{{#if y}}A{{/if}}{{else}}B",
     "{{#if y}}A{{else}}B{{/if}}{{else}}C", "A{{{else}}}B", "{{{else}}}", "A{{{else}}}B{{else}}C",
     "{{#if y}}{{{else}}}{{/if}}", "{{z}}{{{z}}}"}

LookaheadTemplates ==
    {"{{#each xs" \o as \o "}}" \o b \o "{{/each}}" \o t :
        as \in {"", " as x"}, b \in LookaheadBodies, t \in {"", "{{#if y}}A{{else}}B{{/if}}", "{{{else}}}"}}

\* blocks with the code of their open, up to and with the text A of their body,
\* and of their close
CloseScopes ==
    {[open |-> "{{#if x}}A", opening |-> "if self.x.as_bool(){write!(f, \"A\")?;", closing |-> "}"],
     [open |-> "{{#if_some_ref x}}A", opening |-> "if let Some(this_1) = &self.x{write!(f, \"A\")?;",
      closing |-> "}"],
     [open |-> "{{#with a}}A", opening |-> "{let this_1 = self.a;write!(f, \"A\")?;", closing |-> "}"],
     [open |-> "{{#each xs}}{{@index}}A",
      opening |-> "let mut i_1 = 0;for this_1 in self.xs{write!(f, \"{}A\", i_1.as_display_html())?;",
      closing |-> "i_1+=1;}"]}

\* the block nested in them, if any
CloseInners ==
    {[open |-> "", opening |-> "", closing |-> ""],
     [open |-> "{{#unless \"a\"}}", opening |-> "if !\"a\".as_bool(){", closing |-> "}"]}

\* the names written in close tags
CloseNames == {"if", "unless", "if_some", "with", "each", "nothing", "x y"}

\* a block of CloseScopes, the block of CloseInners in it, and their closes under
\* the names inner and outer
CloseTemplate(s, i, inner, outer) ==
    s.open \o i.open \o (IF i.open = "" THEN "" ELSE "{{/" \o inner \o "}}") \o "{{/" \o outer \o "}}"

CloseTemplates ==
    {CloseTemplate(s, i, inner, outer) :
        s \in CloseScopes, i \in CloseInners, inner \in CloseNames, outer \in CloseNames}

\* blocks with locals and references to them; "{{/if}}" closes a block that was
\* never opened
LocalBodies ==
    {"{{#with \"a\"}}{{this}}{{/with}}",
     "{{#with \"a\" as |n|}}{{n}}{{n.b}}{{/with}}",
     "{{#each \"a\"}}{{this}}{{@index}}{{/each}}",
     "{{#each \"a\" as |n|}}{{@key}}{{n}}{{/each}}",
     "{{#if_some \"a\" as |n|}}{{n}}{{/if_some}}",
     "{{#with \"a\"}}{{#with this as |n|}}{{n}}{{../this}}{{/with}}{{this}}{{/with}}",
     "{{#each \"a\" as |n|}}{{#each n as |n|}}{{n}}{{../n}}{{@../index}}{{/each}}{{n}}{{/each}}",
     "{{#with \"a\"}}{{#if \"b\"}}{{this}}{{/if}}{{/with}}",
     "{{#with \"a\"}}{{this}}{{/with}}{{#with \"b\"}}{{this}}{{/with}}",
     "{{#each \"a\"}}{{#with (lookup ../this @index) as |other|}}{{{../this}}}: {{{other}}}{{/with}}{{/each}}"}

LocalTemplates == {p \o b : p \in {"", "{{/if}}"}, b \in LocalBodies}

\* the blocks, with what stands between their body and the text B before their
\* close: nothing, an else, a use of the index counter, the raw interpolation of a
\* variable named else
BraceBlocks ==
    {[open |-> "{{#" \o h \o "}}", mid |-> m, close |-> "{{/" \o h \o "}}"] :
        h \in {"if x", "unless x", "if_some x", "each xs"}, m \in {"", "{{else}}"}}
    \cup {[open |-> "{{#with a}}", mid |-> "", close |-> "{{/with}}"]}
    \cup {[open |-> "{{#each xs}}", mid |-> m, close |-> "{{/each}}"] :
             m \in {"{{@index}}", "{{@index}}{{else}}", "{{{else}}}"}}

\* a block around the body inner
BraceBlock(b, inner) == b.open \o inner \o b.mid \o "B" \o b.close

\* every open closed and every close that of an open: a block, empty, around a
\* text or around another block
BraceTemplates ==
    {BraceBlock(b, inner) : b \in BraceBlocks, inner \in {"", "A"}}
    \cup {BraceBlock(b, BraceBlock(c, "A")) : b \in BraceBlocks, c \in BraceBlocks}

\* the blocks around a private variable: a context binding, a loop, a conditional
\* and an option binding
PrivateBlocks == ScopeBlocks \cup {<<"{{#if_some x}}", "{{/if_some}}">>}

\* none, one or two of them open
PrivateStacks ==
    {<<>>} \cup {<<b>> : b \in PrivateBlocks} \cup {<<b, c>> : b \in PrivateBlocks, c \in PrivateBlocks}

PrivateNames == {"index", "key", "value", "first"}

\* the private variable @name under k `../`, as an interpolation or as the
\* argument of a block
PrivateUse(form, k, name) ==
    IF form = "interpolation" THEN "{{@" \o Ups(k) \o name \o "}}"
    ELSE "{{#if @" \o Ups(k) \o name \o "}}A{{/if}}"

PrivateTemplates ==
    {Nested(bs, Len(bs), PrivateUse(form, k, name)) :
        bs \in PrivateStacks, form \in {"interpolation", "argument"},
        k \in 0 .. 3, name \in PrivateNames}

Templates ==
    BlockTemplates \cup IfTemplates \cup EachTemplates \cup IndexTemplates
        \cup ScopeTemplates \cup RawTemplates
        \cup CommentTemplates
        \cup LiteralTemplates
        \cup EscapeTemplates
        \cup TrimTemplates
        \cup UnclosedTemplates
        \cup HelperTemplates
        \cup ElseTemplates
        \cup ParentTemplates
        \cup LookupTemplates
        \cup StringTemplates
        \cup CapabilityTemplates
        \cup DepthTemplates
        \cup SecondElseTemplates
        \cup LookaheadTemplates
        \cup CloseTemplates
        \cup LocalTemplates
        \cup BraceTemplates
        \cup PrivateTemplates

\* Options of the tests of hbs/lib.rs: root_var_name is Some("self")
Init == InitWith(Templates, {Some("self")})

Spec == Init /\ [][Next]_vars

(***************************************************************************)
(* Specification of the with factory of parser/block.rs: WithFty::open     *)
(* applied to the opening expression of a template, under the types the    *)
(* macro was given for the variables.                                      *)
(***************************************************************************)

\* the types of the variable v: none given, a struct, an Option, a Vec of Options,
\* a struct whose name begins with Option, an Option by its path, a nested Option
TypesOfV ==
    {"", "Author", "Option < Author >", "Vec < Option < Author > >", "Options",
     "std :: option :: Option < Author >", "Option < Option < u8 > >"}

\* the types of the variable w
TypesOfW == {"", "u8", "Option < u8 >"}

\* Options.variable_types when v has the type tv and w the type tw ("": not given)
TypesGiven(tv, tw) ==
    [name \in (IF tv = "" THEN {} ELSE {"v"}) \cup (IF tw = "" THEN {} ELSE {"w"}) |->
        IF name = "v" THEN tv ELSE tw]

\* a with block opened on v or w, with and without a name for the binding
WithTemplates ==
    {"{{#with " \o var \o as \o "}}" : var \in {"v", "w"}, as \in {"", " as |n|", " as n"}}

WithInit ==
    /\ src \in WithTemplates
    /\ root_var_name = Some("self")
    /\ variable_types \in {TypesGiven(tv, tw) : tv \in TypesOfV, tw \in TypesOfW}
    /\ pc = "start"
    /\ expression = NoExpression
    /\ rest = ""
    /\ pending = <<>>
    /\ open_stack = <<>>
    /\ rust = Rust_new
    /\ msg = ""

\* WithFty::open on the template's opening expression `first`, whose leading
\* token is `token`, answered o: the scope is pushed when it is Ok
WithOpened(first, token, o) ==
    /\ expression' = first
    /\ rest' = first.postfix
    /\ rust' = o.rust
    /\ msg' = o.msg
    /\ pc' = Outcome(o.st)
    /\ open_stack' = IF o.st = "ok"
                     THEN Append(Compile_new(root_var_name), Scope(o.block, 1))
                     ELSE Compile_new(root_var_name)

\* the block map's factory of `with` called on the opening expression
WithOpen ==
    /\ pc = "start"
    /\ WithOpened(Expression_from(src), Token_first(Expression_from(src).content),
                  WithFty_open(variable_types, Compile_new(root_var_name),
                               Token_first(Expression_from(src).content), Rust_new))
    /\ UNCHANGED <<src, root_var_name, variable_types, pending>>

WithNext == WithOpen

WithSpec == WithInit /\ [][WithNext]_vars

(***************************************************************************)
(* Error handling and termination of compile                               *)
(***************************************************************************)

\* C1: compile never returns Ok while the open stack still holds a scope other
\* than Root, so a template with a block left open is an error
C1_UnclosedBlockIsError ==
    pc = "Ok" => \A i \in 1 .. Len(open_stack) : open_stack[i].opened.kind = "Root"

\* compile returned Ok for {{#if x}}A with the scope of the if still open
C1_UnclosedBlockAccepted ==
    /\ src = "{{#if x}}A"
    /\ pc = "Ok"
    /\ Len(open_stack) = 2
    /\ open_stack[2].opened.kind = "IfOrUnless"

\* C2: the Root scope is never popped: from Compile::new on, the open stack is
\* non-empty with Root at its bottom, and a close with only Root open is an error
C2_RootNeverPopped ==
    pc # "start" => Len(open_stack) >= 1 /\ open_stack[1].opened.kind = "Root"

\* compile returned Ok for {{/if}}: Root was popped and its closing brace emitted
C2_RootPopped ==
    /\ src = "{{/if}}"
    /\ pc = "Ok"
    /\ open_stack = <<>>
    /\ Text(rust.code) = "}"

\* C3: compile terminates on every template: it never enters a loop that has no exit
C3_CompileTerminates == pc # "Loops"

\* compile of an each block whose body is a comment never leaves check_for_indexer
C3_LookaheadNeverReturns ==
    /\ src = "{{#each xs}}{{! c}}{{/each}}"
    /\ pc = "Loops"
    /\ msg = "check_for_indexer"

(***************************************************************************)
(* What a run of text and interpolations is expected to compile to.        *)
(***************************************************************************)

RECURSIVE Split(_, _)
\* the fragments of F a template is made of, left to right
Split(s, F) ==
    IF s = "" THEN <<>>
    ELSE LET f == CHOOSE f \in F : StartsWith(s, f)
         IN  <<f>> \o Split(SliceFrom(s, Len(f)), F)

RECURSIVE Placeholders(_)
\* the format string of a run of TextFragments: text as it is, {} per interpolation
Placeholders(parts) ==
    IF parts = <<>> THEN ""
    ELSE (IF StartsWith(Head(parts), "{{") THEN "{}" ELSE Head(parts)) \o Placeholders(Tail(parts))

RECURSIVE Arguments(_)
\* the arguments of a run of TextFragments at the top scope, in source order
Arguments(parts) ==
    IF parts = <<>> THEN ""
    ELSE (CASE Head(parts) = "{{y}}" -> ", self.y.as_display_html()"
            [] Head(parts) = "{{{z}}}" -> ", self.z.as_display()"
            [] OTHER -> "") \o Arguments(Tail(parts))

\* the one emission a run of TextFragments compiles to: none when the run is empty
OneEmission(parts) ==
    IF parts = <<>> THEN ""
    ELSE "write!(f, \"" \o Placeholders(parts) \o "\"" \o Arguments(parts) \o ")?;"

\* the emission of a segment of text and interpolations
Emission(segment) == OneEmission(Split(segment, TextFragments))

\* the conditional a template of IfTemplates is expected to compile to: open and
\* close are its opening and closing expressions, test the condition's code
IfCodeOf(inner, at, test) ==
    test \o Emission(IF at = -1 THEN inner ELSE Slice(inner, 0, at))
         \o (IF at = -1 THEN "" ELSE "}else{" \o Emission(SliceFrom(inner, at + Len("{{else}}"))))
         \o "}"

IfCodeIn(template, open, close, test) ==
    IfCodeOf(Slice(template, Len(open), Len(template) - Len(close)),
             Find(Slice(template, Len(open), Len(template) - Len(close)), "{{else}}"), test)

IfCode(template) ==
    IF StartsWith(template, "{{#unless x}}")
    THEN IfCodeIn(template, "{{#unless x}}", "{{/unless}}", "if !self.x.as_bool(){")
    ELSE IfCodeIn(template, "{{#if x}}", "{{/if}}", "if self.x.as_bool(){")

\* C7: {{#if x}}A{{/if}} compiles to one conditional on x.as_bool() around exactly
\* the one merged emission of A; with {{else}}B the then-branch holds exactly the
\* emission of A and the else-branch exactly the emission of B; unless is the same
\* with the test negated.
C7_IfElseStructure ==
    Ended /\ src \in IfTemplates => pc = "Ok" /\ Text(rust.code) = IfCode(src)

C7_IfElseCompiled ==
    /\ src = "{{#unless x}}A{{y}}{{else}}{{{z}}}A{{/unless}}"
    /\ pc = "Ok"
    /\ Text(rust.code) = "if !self.x.as_bool(){write!(f, \"A{}\", self.y.as_display_html())?;}"
                         \o "else{write!(f, \"{}A\", self.z.as_display())?;}"

RECURSIVE Binding(_, _)
\* the name the scope at open-stack index j is bound to, under the blocks bs: the
\* root's `self`, the this_j of a with or each opened as block j, and for an if
\* (which binds nothing) what the scope below it is bound to
Binding(bs, j) ==
    IF j = 0 THEN "self"
    ELSE IF bs[j][1] = "{{#if x}}" THEN Binding(bs, j - 1)
    ELSE "this_" \o ToString(j)

\* the emission of the path c with k leading ../ under the n blocks bs
ScopedEmission(bs, n, k) ==
    "write!(f, \"{}\", " \o Binding(bs, n - k) \o ".c.as_display_html())?;"

\* C8: a path with k leading ../ compiled while n >= k blocks are open is resolved
\* against the scope at open-stack index n - k, the k segments stripped, not
\* against the innermost scope.
C8_ParentScopeResolution ==
    \A n \in 0 .. MaxDepth : \A bs \in [1 .. n -> ScopeBlocks] : \A k \in 0 .. n :
        Ended /\ src = Nested(bs, n, "{{" \o Ups(k) \o "c}}")
            => pc = "Ok" /\ Find(Text(rust.code), ScopedEmission(bs, n, k)) # -1

C8_OuterWithResolved ==
    /\ src = "{{#with a}}{{#with a}}{{../c}}{{/with}}{{/with}}"
    /\ pc = "Ok"
    /\ Text(rust.code) = "{let this_1 = self.a;{let this_2 = this_1.a;"
                         \o "write!(f, \"{}\", this_1.c.as_display_html())?;}}"

\* C9: for a raw block {{{{a}}}}body{{{{/a}}}} whose body holds any number of close
\* tags of other names and nested {{ sequences, the scanner yields one Escaped
\* expression whose content is exactly the body, and scanning resumes right after
\* the matching close tag.
C9_RawBlockVerbatim ==
    \A body \in Concats(RawFragments, MaxRawParts) : \A tail \in {"", "T"} :
        src = "{{{{a}}}}" \o body \o "{{{{/a}}}}" \o tail /\ pc # "start" /\ rest = src
            => /\ pc = "loop"
               /\ expression.res = "some"
               /\ expression.expression_type = "Escaped"
               /\ expression.content = body
               /\ expression.postfix = tail

C9_MatchingCloseMissed ==
    /\ src = "{{{{a}}}}{{{{/b}}}}{{{{/b}}}}{{{{/a}}}}"
    /\ pc = "Err"
    /\ msg = "unclosed block"
    /\ rest = src

\* compile stands at a control-flow boundary: a block's open, {{else}}, a block's
\* close, or the end of the input
AtBoundary ==
    /\ pc = "loop"
    /\ \/ expression.res = "none"
       \/ expression.expression_type \in {"Open", "Close"}
       \/ expression.expression_type = "HtmlEscaped" /\ expression.content = "else"

\* the text and interpolations queued since the last boundary, in source order
QueuedAtBoundary == IF expression.res = "none" THEN WithRest ELSE WithPrefix(expression)

RECURSIVE FormatOf(_)
\* the format string of the queued fragments: text escaped, a placeholder per
\* interpolation
FormatOf(queued) ==
    IF queued = <<>> THEN ""
    ELSE (CASE Head(queued).kind = "Raw" -> escape(Head(queued).text)
            [] Head(queued).kind = "Expression" -> "{}"
            [] OTHER -> Head(queued).text) \o FormatOf(Tail(queued))

RECURSIVE ArgumentsOf(_)
\* the resolved arguments of the queued interpolations, in source order
ArgumentsOf(queued) ==
    IF queued = <<>> THEN ""
    ELSE (IF Head(queued).kind = "Raw" THEN ""
          ELSE Text(resolve(open_stack, ", ", Head(queued).content, Head(queued).display,
                            Rust_new).rust.code)) \o ArgumentsOf(Tail(queued))

\* the one emission instruction of the queued fragments
EmissionOf(queued) ==
    "write!(f, \"" \o FormatOf(queued) \o "\"" \o ArgumentsOf(queued) \o ")?;"

\* the code a step appends
Appended == Text(SubSeq(rust'.code, Len(rust.code) + 1, Len(rust'.code)))

\* a step of compile emits as C10 says
FlushedOnce ==
    /\ SubSeq(rust'.code, 1, Len(rust.code)) = rust.code
    /\ pc = "loop" /\ ~AtBoundary => rust' = rust
    /\ AtBoundary /\ QueuedAtBoundary = <<>> => Find(Appended, "write!(") = -1
    /\ AtBoundary /\ QueuedAtBoundary # <<>> /\ pc' \in {"loop", "Ok"} =>
           /\ StartsWith(Appended, EmissionOf(QueuedAtBoundary))
           /\ Find(SliceFrom(Appended, Len(EmissionOf(QueuedAtBoundary))), "write!(") = -1
           /\ pending' = <<>>

\* C10: at every control-flow boundary the text and interpolations queued since the
\* last one are emitted as exactly one emission instruction when something is
\* queued and as none otherwise, before the boundary's own code, text and
\* placeholders in source order, the i-th placeholder bound to the i-th
\* interpolation's resolved argument; between boundaries nothing is emitted.
C10_OneEmissionPerFlush == [][FlushedOnce]_vars

C10_FlushedBeforeElse ==
    /\ src = "{{#if x}}{{{z}}}A{{else}}{{y}}{{/if}}"
    /\ pc = "loop"
    /\ pending = <<>>
    /\ Text(rust.code) = "if self.x.as_bool(){write!(f, \"{}A\", self.z.as_display())?;}else{"

\* the fragments of IndexFragments that refer to the index of the loop whose body
\* they stand in: as many ../ as blocks opened between the loop and the reference
OwnIndexFragments ==
    {"{{@index}}", "{{lookup indexes @index}}", "{{#each ys}}{{@../index}}{{/each}}"}

\* C5: an each block whose body refers to this loop's @index, wherever in its
\* expression, has a counter named by the loop's depth, zero-initialised before the
\* loop, so resolving @index never finds the counter missing; a body with no such
\* reference has no counter.
C5_CounterIffReferenced ==
    Ended =>
        \A parts \in [1 .. MaxIndexParts -> IndexFragments \cup {""}] :
            src = "{{#each xs}}" \o Text(parts) \o "{{/each}}" =>
                /\ pc = "Ok"
                /\ IF \E i \in 1 .. MaxIndexParts : parts[i] \in OwnIndexFragments
                   THEN StartsWith(Text(rust.code), "let mut i_1 = 0;for this_1 in self.xs{")
                   ELSE StartsWith(Text(rust.code), "for this_1 in self.xs{")

C5_CounterMissing ==
    /\ src = "{{#each xs}}{{lookup indexes @index}}{{/each}}"
    /\ pc = "Panic"
    /\ msg = "indexer.unwrap() on None"
    /\ Len(open_stack) = 2
    /\ ~open_stack[2].opened.indexer.some

(***************************************************************************)
(* What the emitted code does when it runs: its statements executed over   *)
(* collections of n elements and conditions that all answer cond, with the *)
(* sequence of events of the run: <<"write", text>>, <<"iter", depth>> and  *)
(* <<"end", depth, counter>> at the start and the end of a loop iteration, *)
(* <<"alloc", counter>>, <<"inc", counter>>, <<"flag">> when the emptiness *)
(* flag is declared, <<"clear">> when it is cleared.                       *)
(***************************************************************************)

\* the number of elements of a collection an emitted loop runs over, at most
MaxItems == 2

RECURSIVE Statements(_)
\* the emitted pieces, those that close one block and open the next split in two
Statements(code) ==
    IF code = <<>> THEN <<>>
    ELSE (CASE Head(code) = "}}" -> <<"}", "}">>
            [] Head(code) = "} if empty {" -> <<"}", "if empty {">>
            [] Head(code) = "}else{" -> <<"}", "else{">>
            [] Head(code) = "{let mut empty = true;" -> <<"{", "let mut empty = true;">>
            [] OTHER -> <<Head(code)>>) \o Statements(Tail(code))

RECURSIVE IndexOf(_, _, _)
\* the first index from i on at which code holds t, 0 when there is none
IndexOf(code, t, i) ==
    IF i > Len(code) THEN 0 ELSE IF code[i] = t THEN i ELSE IndexOf(code, t, i + 1)

\* the pieces that open a block
Openers == {"{", "{let ", "if empty {", "else{", ".as_bool(){"}

RECURSIVE MatchingClose(_, _, _)
\* the index of the } that closes the block i stands in, depth blocks having been
\* opened inside it before i; 0 when there is none
MatchingClose(code, i, depth) ==
    IF i > Len(code) THEN 0
    ELSE IF code[i] = "write!("
    THEN IF IndexOf(code, ")?;", i) = 0 THEN 0
         ELSE MatchingClose(code, IndexOf(code, ")?;", i) + 1, depth)
    ELSE IF code[i] \in Openers THEN MatchingClose(code, i + 1, depth + 1)
    ELSE IF code[i] = "}"
    THEN IF depth = 0 THEN i ELSE MatchingClose(code, i + 1, depth - 1)
    ELSE MatchingClose(code, i + 1, depth)

\* an open block of the run: a for loop (its first statement, the iterations left,
\* its depth, its counter), a block that declares the flag `empty`, or any other
Frame(kind, start, left, id, empty) ==
    [kind |-> kind, start |-> start, left |-> left, id |-> id, empty |-> empty, counter |-> ""]

\* the counter a loop that starts now has: the one allocated right before it (the
\* flag's declaration may stand between the two), "" when none was
CounterBefore(trace) ==
    IF Len(trace) >= 1 /\ trace[Len(trace)][1] = "alloc" THEN trace[Len(trace)][2]
    ELSE IF Len(trace) >= 2 /\ trace[Len(trace)] = <<"flag">> /\ trace[Len(trace) - 1][1] = "alloc"
    THEN trace[Len(trace) - 1][2]
    ELSE ""

Top(frames) == frames[Len(frames)]

Pop(frames) == SubSeq(frames, 1, Len(frames) - 1)

RECURSIVE FlagFrame(_, _)
\* the innermost open block at or below i that declares `empty`, 0 when none does
FlagFrame(frames, i) ==
    IF i = 0 THEN 0 ELSE IF frames[i].kind = "flag" THEN i ELSE FlagFrame(frames, i - 1)

RECURSIVE Run(_, _, _, _, _, _)

\* the run cannot go on: the code is not what rustc accepts
Stuck(trace, at) == Append(trace, <<"stuck", at>>)

\* write!( .. )?; close is the index of its )?;
RunWrite(code, ip, close, frames, trace, n, cond) ==
    IF close = 0 THEN Stuck(trace, "write!(")
    ELSE Run(code, close + 1, frames,
             Append(trace, <<"write", Text(SubSeq(code, ip, close))>>), n, cond)

\* the run goes on after the block that close closes
RunSkip(code, close, frames, trace, n, cond) ==
    IF close = 0 THEN Stuck(trace, "}") ELSE Run(code, close + 1, frames, trace, n, cond)

\* for <local>_<depth> in .. {: open is the index of the { of the loop
RunFor(code, ip, open, frames, trace, n, cond) ==
    IF open < ip + 4 THEN Stuck(trace, "for ")
    ELSE IF n = 0 THEN RunSkip(code, MatchingClose(code, open + 1, 0), frames, trace, n, cond)
    ELSE Run(code, open + 1,
             Append(frames, [Frame("for", open + 1, n - 1, code[ip + 3], FALSE)
                                 EXCEPT !.counter = CounterBefore(trace)]),
             Append(trace, <<"iter", code[ip + 3]>>), n, cond)

\* the then-branch that close closes was not taken: its else branch, if any, is
RunElse(code, close, frames, trace, n, cond) ==
    IF close = 0 THEN Stuck(trace, "}")
    ELSE IF close < Len(code) /\ code[close + 1] = "else{"
    THEN Run(code, close + 2, Append(frames, Frame("else", 0, 0, "", FALSE)), trace, n, cond)
    ELSE Run(code, close + 1, frames, trace, n, cond)

\* if .. .as_bool(){: open is the index of the .as_bool(){
RunIf(code, open, taken, frames, trace, n, cond) ==
    IF open = 0 THEN Stuck(trace, "if ")
    ELSE IF taken
    THEN Run(code, open + 1, Append(frames, Frame("if", 0, 0, "", FALSE)), trace, n, cond)
    ELSE RunElse(code, MatchingClose(code, open + 1, 0), frames, trace, n, cond)

\* }: the end of an iteration (and the start of the next), of a then-branch (its
\* else branch is skipped), or of any other block
RunClose(code, ip, frames, trace, n, cond) ==
    IF frames = <<>> THEN Stuck(trace, "}")
    ELSE IF Top(frames).kind = "for"
    THEN IF Top(frames).left > 0
         THEN Run(code, Top(frames).start,
                  Append(Pop(frames), [Top(frames) EXCEPT !.left = @ - 1]),
                  trace \o <<<<"end", Top(frames).id, Top(frames).counter>>,
                            <<"iter", Top(frames).id>>>>, n, cond)
         ELSE Run(code, ip + 1, Pop(frames),
                  Append(trace, <<"end", Top(frames).id, Top(frames).counter>>), n, cond)
    ELSE IF Top(frames).kind = "if" /\ ip < Len(code) /\ code[ip + 1] = "else{"
    THEN RunSkip(code, MatchingClose(code, ip + 2, 0), Pop(frames), trace, n, cond)
    ELSE Run(code, ip + 1, Pop(frames), trace, n, cond)

\* empty = false; and if empty {: flag is the index of the block that declares empty
RunFlag(code, ip, flag, frames, trace, n, cond) ==
    IF flag = 0 THEN Stuck(trace, "empty")
    ELSE IF code[ip] = "empty = false;"
    THEN Run(code, ip + 1, [frames EXCEPT ![flag].empty = FALSE], Append(trace, <<"clear">>),
             n, cond)
    ELSE IF frames[flag].empty
    THEN Run(code, ip + 1, Append(frames, Frame("if empty", 0, 0, "", FALSE)), trace, n, cond)
    ELSE RunSkip(code, MatchingClose(code, ip + 1, 0), frames, trace, n, cond)

\* the events of the run of code from its statement ip on
Run(code, ip, frames, trace, n, cond) ==
    IF ip > Len(code) THEN IF frames = <<>> THEN trace ELSE Stuck(trace, "end")
    ELSE IF ip < Len(code) /\ code[ip + 1] = "+=1;"
    THEN Run(code, ip + 2, frames, Append(trace, <<"inc", code[ip]>>), n, cond)
    ELSE CASE code[ip] = "write!(" ->
              RunWrite(code, ip, IndexOf(code, ")?;", ip), frames, trace, n, cond)
           [] code[ip] = "let mut " ->
              IF ip + 2 <= Len(code) /\ code[ip + 2] = " = 0;"
              THEN Run(code, ip + 3, frames, Append(trace, <<"alloc", code[ip + 1]>>), n, cond)
              ELSE Stuck(trace, "let mut ")
           [] code[ip] = "{" ->
              Run(code, ip + 1, Append(frames, Frame("block", 0, 0, "", FALSE)), trace, n, cond)
           [] code[ip] = "{let " ->
              RunSkip(code, IndexOf(code, ";", ip), Append(frames, Frame("block", 0, 0, "", FALSE)),
                      trace, n, cond)
           [] code[ip] = "let mut empty = true;" ->
              IF frames = <<>> THEN Stuck(trace, "let mut empty = true;")
              ELSE Run(code, ip + 1, Append(Pop(frames), Frame("flag", 0, 0, "", TRUE)),
                       Append(trace, <<"flag">>), n, cond)
           [] code[ip] \in {"empty = false;", "if empty {"} ->
              RunFlag(code, ip, FlagFrame(frames, Len(frames)), frames, trace, n, cond)
           [] code[ip] = "for " -> RunFor(code, ip, IndexOf(code, "{", ip), frames, trace, n, cond)
           [] code[ip] \in {"if ", "if !"} ->
              RunIf(code, IndexOf(code, ".as_bool(){", ip), (code[ip] = "if ") = cond,
                    frames, trace, n, cond)
           [] code[ip] = "}" -> RunClose(code, ip, frames, trace, n, cond)
           [] OTHER -> Stuck(trace, code[ip])

\* the events of the run of the code compile emitted
Execution(n, cond) == Run(Statements(rust.code), 1, <<>>, <<>>, n, cond)

\* how many write! of a run emit the text
Writes(trace, text) ==
    Cardinality({j \in 1 .. Len(trace) : trace[j][1] = "write" /\ Find(trace[j][2], text) # -1})

\* how many events of a run are of the kind
Events(trace, kind) == Cardinality({j \in 1 .. Len(trace) : trace[j][1] = kind})

\* the run of {{#each xs}}B..{{else}}E..{{/each}} over n elements is as C4 says
ElseIffEmpty(trace, n) ==
    /\ Events(trace, "stuck") = 0
    /\ Writes(trace, "B") = n
    /\ Writes(trace, "E") = (IF n = 0 THEN 1 ELSE 0)
    /\ Events(trace, "flag") = 1
    /\ \A j \in 1 .. Len(trace) :
           /\ trace[j][1] = "iter" => \E i \in 1 .. j - 1 : trace[i][1] = "flag"
           /\ trace[j] = <<"iter", "1">> => j < Len(trace) /\ trace[j + 1] = <<"clear">>

\* C4: for an each block with a sibling {{else}} the emitted code runs the else
\* emission if and only if the loop ran no iteration: the flag is set before the
\* loop, cleared on every iteration, and guards the else branch after the loop; over
\* one or more elements the body emission runs once per element and the else
\* emission never.
C4_ElseIffNoIteration ==
    Ended /\ src \in EachTemplates /\ Find(src, "{{else}}E") # -1 =>
        /\ pc = "Ok"
        /\ \A n \in 0 .. MaxItems : \A cond \in BOOLEAN : ElseIffEmpty(Execution(n, cond), n)

C4_ElseCompiled ==
    /\ src = "{{#each xs}}B{{y}}{{else}}E{{/each}}"
    /\ pc = "Ok"
    /\ Execution(0, TRUE) = <<<<"flag">>, <<"write", "write!(f, \"E\")?;">>>>
    /\ Writes(Execution(MaxItems, TRUE), "B") = MaxItems
    /\ Writes(Execution(MaxItems, TRUE), "E") = 0

\* the run increments the counters as C6 says: an increment is the last statement
\* of an iteration of the counter's loop, and an iteration of a loop that has a
\* counter ends with the increment of it
IncrementedOncePerIteration(trace) ==
    \A j \in 1 .. Len(trace) :
        /\ trace[j][1] = "inc" =>
               j < Len(trace) /\ trace[j + 1][1] = "end" /\ trace[j + 1][3] = trace[j][2]
        /\ trace[j][1] = "end" /\ trace[j][3] # "" => j > 1 /\ trace[j - 1] = <<"inc", trace[j][3]>>

\* C6: when an each block has an index counter the emitted code increments it
\* exactly once per iteration, as the last statement of the loop body, with and
\* without an else branch, never inside the else branch or after the loop.
C6_IncrementOncePerIteration ==
    Ended /\ pc = "Ok" /\ src \in EachTemplates \cup IndexTemplates =>
        \A n \in 0 .. MaxItems : \A cond \in BOOLEAN :
            IncrementedOncePerIteration(Execution(n, cond))

C6_CounterNeverIncremented ==
    /\ src = "{{#each xs}}B{{@index}}{{{else}}}{{/each}}"
    /\ pc = "Ok"
    /\ Events(Execution(MaxItems, TRUE), "alloc") = 1
    /\ Events(Execution(MaxItems, TRUE), "end") = MaxItems
    /\ Events(Execution(MaxItems, TRUE), "inc") = 0

(***************************************************************************)
(* Comments, literal text, escapes and whitespace control                  *)
(***************************************************************************)

\* the fragments of a run that are not comments
WithoutComments(parts) == SelectSeq(parts, LAMBDA f : ~StartsWith(f, "{{!"))

\* the code a template of CommentTemplates compiles to once its comments are
\* removed: body is what stands between open and close
CommentFreeCode(body, test) ==
    test \o OneEmission(WithoutComments(Split(body, CommentFragments)))
         \o (IF test = "" THEN "" ELSE "}")

CommentFreeCodeOf(template) ==
    IF StartsWith(template, "{{#if x}}")
    THEN CommentFreeCode(Slice(template, Len("{{#if x}}"), Len(template) - Len("{{/if}}")),
                         "if self.x.as_bool(){")
    ELSE IF StartsWith(template, "{{#each xs}}")
    THEN CommentFreeCode(Slice(template, Len("{{#each xs}}"), Len(template) - Len("{{/each}}")),
                         "for this_1 in self.xs{")
    ELSE CommentFreeCode(template, "")

\* C11: a comment contributes nothing: a template that holds comments compiles, and
\* to the code of the template with the comments removed, the literal text in the
\* same order, whatever text surrounds the comment.
C11_CommentContributesNothing ==
    Ended /\ src \in CommentTemplates => pc = "Ok" /\ Text(rust.code) = CommentFreeCodeOf(src)

C11_CommentInEachNeverCompiles ==
    /\ src = "{{#each xs}}A{{!-- {{c}} --}}B{{/each}}"
    /\ pc = "Loops"
    /\ Text(rust.code) = ""

RECURSIVE Unescaped(_)
\* the text a Rust format string literal stands for, read as rustc reads it: {{ is
\* {, }} is }, a backslash gives the character after it; <<FALSE, _>> when it is no
\* literal text (a lone brace, a bare quote, a backslash with nothing after it)
Unescaped(format) ==
    IF format = "" THEN <<TRUE, "">>
    ELSE IF Slice(format, 0, 1) \in {"{", "}", "\\"}
    THEN IF Len(format) < 2 THEN <<FALSE, "">>
         ELSE IF Slice(format, 0, 1) # "\\" /\ Slice(format, 1, 2) # Slice(format, 0, 1)
         THEN <<FALSE, "">>
         ELSE <<Unescaped(SliceFrom(format, 2))[1],
                Slice(format, 1, 2) \o Unescaped(SliceFrom(format, 2))[2]>>
    ELSE IF Slice(format, 0, 1) = "\"" THEN <<FALSE, "">>
    ELSE <<Unescaped(SliceFrom(format, 1))[1],
           Slice(format, 0, 1) \o Unescaped(SliceFrom(format, 1))[2]>>

\* code is one write! of a format string without arguments that stands for text
OneVerbatimEmission(code, text) ==
    /\ StartsWith(code, "write!(f, \"")
    /\ EndsWith(code, "\")?;")
    /\ Len(code) >= Len("write!(f, \"") + Len("\")?;")
    /\ Unescaped(Slice(code, Len("write!(f, \""), Len(code) - Len("\")?;"))) = <<TRUE, text>>

\* C12 as the spec states it: every template without {{ compiles to exactly one
\* verbatim emission whose text, the escaping undone, is the template.
C12_LiteralRoundTrip ==
    Ended /\ src \in LiteralTemplates => pc = "Ok" /\ OneVerbatimEmission(Text(rust.code), src)

\* C12: every template without {{ that is not empty compiles to exactly one verbatim
\* emission whose text, the escaping undone, is the template; the empty template
\* compiles to no emission.
C12_LiteralRoundTripNonEmpty ==
    Ended /\ src \in LiteralTemplates =>
        /\ pc = "Ok"
        /\ IF src = "" THEN rust.code = <<>> ELSE OneVerbatimEmission(Text(rust.code), src)

C12_LiteralEscaped ==
    /\ src = "\"{\\"
    /\ pc = "Ok"
    /\ Text(rust.code) = "write!(f, \"\\\"{{\\\\\")?;"

\* C13: a {{ preceded by a backslash makes the scanner yield an Escaped expression
\* whose text is the span {{..}} with both delimiters, the backslash dropped, and
\* compile emit it as literal text, never as an interpolation.
C13_BackslashKeepsDelimiters ==
    \A p \in {"", "A"} : \A b \in EscapedBodies : \A t \in {"", "B"} :
        src = p \o "\\{{" \o b \o "}}" \o t =>
            /\ pc # "start" /\ rest = src =>
                   /\ pc = "loop"
                   /\ expression.expression_type = "Escaped"
                   /\ expression.prefix = p
                   /\ expression.content = "{{" \o b \o "}}"
                   /\ expression.postfix = t
            /\ Ended =>
                   /\ pc = "Ok"
                   /\ OneVerbatimEmission(Text(rust.code), p \o "{{" \o b \o "}}" \o t)

C13_DelimitersDropped ==
    /\ src = "A\\{{y}}B"
    /\ pc = "Ok"
    /\ Text(rust.code) = "write!(f, \"AyB\")?;"

\* the emission of a piece of literal text: none when it is empty
TextEmission(text) == IF text = "" THEN "" ELSE "write!(f, \"" \o text \o "\")?;"

\* the code of a template of TrimTemplates whose expression of kind k stands
\* between the texts p and t, as they are left once trimmed
TrimmedCode(k, p, t) ==
    CASE k.kind = "interpolation" ->
         "write!(f, \"" \o p \o "{}" \o t \o "\", self.y.as_display_html())?;"
      [] k.kind = "raw" -> "write!(f, \"" \o p \o "{}" \o t \o "\", self.z.as_display())?;"
      [] k.kind = "comment" -> TextEmission(p \o t)
      [] k.kind = "open" -> TextEmission(p) \o "if self.x.as_bool(){" \o TextEmission(t) \o "}"
      [] OTHER -> "if self.x.as_bool(){" \o TextEmission(p) \o "}" \o TextEmission(t)

\* C14: for every kind of expression a ~ after the opening delimiter removes the
\* trailing whitespace of the text before the expression, a ~ before the closing
\* delimiter the leading whitespace of the text after it, the ~ is no part of the
\* content, and without ~ the text is kept as it is.
C14_TildeTrimsAdjacentText ==
    Ended =>
        \A k \in TrimKinds : \A p \in TextsBefore : \A t \in TextsAfter :
            \A lt \in BOOLEAN : \A rt \in BOOLEAN :
                src = TrimTemplate(k, p[1], t[1], lt, rt) =>
                    /\ pc = "Ok"
                    /\ Text(rust.code) = TrimmedCode(k, IF lt THEN p[2] ELSE p[1],
                                                     IF rt THEN t[2] ELSE t[1])

C14_BothSidesTrimmed ==
    /\ src = "{{#if x}}A\t\n{{~/if~}}\n\t B "
    /\ pc = "Ok"
    /\ Text(rust.code) = "if self.x.as_bool(){write!(f, \"A\")?;}write!(f, \"B \")?;"

\* C15: an opening delimiter of any form whose matching close never occurs, a raw
\* block without its close tag included, makes compile fail with "unclosed block".
C15_UnclosedIsError == Ended /\ src \in UnclosedTemplates => pc = "Err" /\ msg = "unclosed block"

C15_UnclosedRawBlockPanics ==
    src = "{{{{a}}}}{{{{/b}}}}{{{{/b}}}}" /\ pc = "Panic" /\ Text(rust.code) = ""

(***************************************************************************)
(* Block helpers by name, else, parent scopes, lookups and string tokens.  *)
(***************************************************************************)

\* what the factory registered under a built-in name emits for the block's
\* opening expression `name x` when depth blocks are open, the Root included
Opening(depth) ==
    [if |-> "if self.x.as_bool(){",
     unless |-> "if !self.x.as_bool(){",
     if_some |-> "if let Some(this_" \o ToString(depth) \o ") = self.x{",
     if_some_ref |-> "if let Some(this_" \o ToString(depth) \o ") = &self.x{",
     with |-> "{let this_" \o ToString(depth) \o " = self.x;",
     with_ref |-> "{let this_" \o ToString(depth) \o " = &self.x;",
     each |-> "for this_" \o ToString(depth) \o " in self.x{",
     each_ref |-> "for this_" \o ToString(depth) \o " in &self.x{"]

\* the pass over the opening expression `n x`: under a built-in name one scope is
\* pushed and the helper's opening is emitted, under any other name compile fails
\* and nothing is pushed or emitted
DispatchedAs(n) ==
    IF n \in DOMAIN Opening(0)
    THEN /\ pc' = "loop"
         /\ Len(open_stack') = Len(open_stack) + 1
         /\ SubSeq(open_stack', 1, Len(open_stack)) = open_stack
         /\ Text(rust'.code) = Text(rust.code) \o Opening(Len(open_stack))[n]
    ELSE /\ pc' = "Err"
         /\ msg' = "unsupported block helper"
         /\ open_stack' = open_stack
         /\ rust' = rust

DispatchedByName ==
    \A n \in HelperNames :
        /\ src \in HelperTemplates
        /\ pc = "loop"
        /\ expression.res = "some"
        /\ expression.expression_type = "Open"
        /\ expression.content = n \o " x"
        => DispatchedAs(n)

\* C16: a block's opening expression whose leading token is exactly one of the
\* eight built-in names is dispatched to that helper and pushes one scope; under
\* any other leading token compile fails with "unsupported block helper" and no
\* scope is pushed.
C16_DispatchByExactName == [][DispatchedByName]_vars

C16_PrivateNameDispatched ==
    /\ src = "{{#@if x}}A{{/@if}}"
    /\ pc = "Ok"
    /\ Text(rust.code) = "if self.x.as_bool(){write!(f, \"A\")?;}"
\* the outcome of compiling the template of an else in the scope s between the
\* texts a and b: an error with no branch flip emitted where s does not support
\* else, the flipped branches where it does
ElseOutcome(s, a, b) ==
    IF s.flip = ""
    THEN /\ pc = "Err"
         /\ msg = "else not expected here"
         /\ Text(rust.code) = s.opening \o TextEmission(a)
    ELSE /\ pc = "Ok"
         /\ Text(rust.code) = s.opening \o TextEmission(a) \o s.flip \o TextEmission(b) \o s.closing

\* C17: an else whose innermost open scope is the Root or a with/with_ref block
\* makes compile fail and emits no branch-flip code; an else whose innermost open
\* scope is an if, unless, if_some[_ref] or each[_ref] block is accepted.
C17_ElseOnlyWhereSupported ==
    Ended =>
        \A s \in ElseScopes : \A a \in ElseTexts : \A b \in ElseTexts :
            src = ElseTemplate(s, a, b) => ElseOutcome(s, a, b)

C17_ElseInWithRejected ==
    /\ src = "{{#if x}}{{#with a as |n|}}A{{else}}{{/with}}{{/if}}"
    /\ pc = "Err"
    /\ msg = "else not expected here"
    /\ Text(rust.code) = "if self.x.as_bool(){{let n_2 = self.a;write!(f, \"A\")?;"

\* C18: a path with more leading ../ than there are open blocks makes compile fail
\* with "unable to resolve scope"; the open stack is not indexed below its bottom.
C18_NoParentOfRoot == Ended /\ src \in ParentTemplates => pc = "Err" /\ msg = "unable to resolve scope"

C18_ParentOfPoppedRoot ==
    src = "{{/if}}{{../c}}" /\ pc = "Panic" /\ msg = "unwrap on None" /\ open_stack = <<>>

\* the emission of a lookup helper called on the arguments a and b
LookupEmission(name, form) ==
    "write!(f, \"{}\", self.a" \o (IF name = "lookup" THEN "[self.b]" ELSE ".get(self.b)")
        \o (IF form = "raw" THEN ".as_display()" ELSE ".as_display_html()") \o ")?;"

\* C19: lookup or try_lookup called on any number of arguments other than two
\* makes compile fail; called on two, a and b, lookup renders a[b] and try_lookup
\* a.get(b) over the resolved arguments.
C19_LookupTakesTwoArguments ==
    Ended =>
        \A name \in {"lookup", "try_lookup"} : \A k \in 0 .. MaxArguments :
            \A form \in {"interpolation", "raw", "sub"} :
                src = LookupTemplate(name, k, form) =>
                    IF k = 2 THEN pc = "Ok" /\ Text(rust.code) = LookupEmission(name, form)
                    ELSE pc = "Err"

C19_ThirdArgumentIgnored ==
    /\ src = "{{lookup a b c}}"
    /\ pc = "Ok"
    /\ Text(rust.code) = "write!(f, \"{}\", self.a[self.b].as_display_html())?;"

\* C20: a token starting with a double quote is one Literal that ends at the first
\* quote not escaped by a backslash, a backslash escaping only the character after
\* it: a string whose body holds escaped quotes and other backslash sequences is
\* ended by its closing quote, and only a string without an unescaped closing quote
\* fails with "unterminated string".
C20_StringEndsAtUnescapedQuote ==
    Ended =>
        \A body \in Concats(StringParts, MaxStringParts) : \A closed \in BOOLEAN :
            \A tail \in {"", " b"} :
                src = StringTemplate(body, closed, tail) =>
                    IF closed
                    THEN /\ pc = "Ok"
                         /\ Text(rust.code) =
                                "write!(f, \"{}\", h(\"" \o body \o "\""
                                    \o (IF tail = "" THEN "" ELSE ", self.b")
                                    \o ").as_display_html())?;"
                    ELSE pc = "Err" /\ msg = "unterminated string"

C20_EscapeNeverEnds ==
    src = "{{h \"a\\\"\"}}" /\ pc = "Err" /\ msg = "unterminated string"

(***************************************************************************)
(* Capabilities, scope depths, spans, else and close, locals and privates. *)
(***************************************************************************)

\* the text part stands somewhere in the text code
Contains(code, part) ==
    \E i \in 1 .. Len(code) - Len(part) + 1 : SubSeq(code, i, i + Len(part) - 1) = part

\* the capabilities whose call stands in the emitted code
CapabilitiesCalled(code) ==
    {c \in {"AsDisplayHtml", "AsDisplay", "AsBool"} :
        Contains(code, CASE c = "AsDisplayHtml" -> ".as_display_html()"
                         [] c = "AsDisplay" -> ".as_display()"
                         [] OTHER -> ".as_bool()")}

OptionalTypes ==
    {"Option < Author >", "Option < u8 >", "Option < Option < u8 > >",
     "std :: option :: Option < Author >"}

\* the opening of a with block on var bound to local: the option-aware one, whose
\* body runs only when var holds a value, or the plain binding
WithOpening(optional, local, var) ==
    IF optional THEN "if let Some(" \o local \o ") = &self." \o var \o "{"
    ELSE "{let " \o local \o " = &self." \o var \o ";"

\* C22: `{{#with v}}` selects the option-aware behaviour if and only if the type
\* given for the variable v says it is optional; with no type or another type it
\* selects the plain context binding.
C22_OptionAwareIffOptional ==
    Ended =>
        \A var \in {"v", "w"} : \A as \in {"", " as |n|", " as n"} :
            src = "{{#with " \o var \o as \o "}}" =>
                /\ pc = "Ok"
                /\ Text(rust.code) =
                       WithOpening(var \in DOMAIN variable_types
                                       /\ variable_types[var] \in OptionalTypes,
                                   IF as = "" THEN "this_1" ELSE "n_1", var)

C22_VecTakenForOption ==
    /\ src = "{{#with v}}"
    /\ variable_types = TypesGiven("Vec < Option < Author > >", "")
    /\ pc = "Ok"
    /\ Text(rust.code) = "if let Some(this_1) = &self.v{"
    /\ open_stack[2].opened.kind = "IfSome"

\* C23: in every state of a compile, after any sequence of opens and closes, each
\* scope of the open stack has the depth of its index: the Root at index 0 with
\* depth 0, and the depths growing by one toward the top.
C23_DepthIsIndex ==
    pc # "start" =>
        /\ Len(open_stack) >= 1
        /\ open_stack[1].opened.kind = "Root"
        /\ \A i \in 1 .. Len(open_stack) : open_stack[i].depth = i - 1

C23_BlockAtTheBottom ==
    /\ src = "{{/if}}{{#if \"a\"}}"
    /\ pc = "Ok"
    /\ Len(open_stack) = 1
    /\ open_stack[1].opened.kind = "IfOrUnless"
    /\ open_stack[1].depth = 0

\* C24: for every Expression the scanner produces, raw is the whole matched span,
\* its opening and closing delimiters included, and prefix, raw and the postfix as
\* it was before trimming make up the source slice that was scanned (rest is that
\* slice: the template, then the postfix of the expression before).
C24_RawIsTheWholeSpan ==
    pc = "loop" /\ expression.res = "some" =>
        /\ Slice(expression.raw, 0, 2) = "{{"
        /\ Slice(expression.raw, Len(expression.raw) - 2, Len(expression.raw)) = "}}"
        /\ \E k \in 0 .. Len(rest) :
               /\ rest = expression.prefix \o expression.raw \o SliceFrom(rest, k)
               /\ expression.postfix \in {SliceFrom(rest, k), TrimStart(SliceFrom(rest, k))}

C24_RawWithoutOpening ==
    /\ src = "A{{y}}B"
    /\ pc = "loop"
    /\ rest = src
    /\ expression.prefix = "A"
    /\ expression.raw = "y}}"
    /\ expression.postfix = "B"

\* the number of times part occurs in code
Occurrences(code, part) ==
    Cardinality({i \in 1 .. Len(code) - Len(part) + 1 : SubSeq(code, i, i + Len(part) - 1) = part})

\* C25: an open block takes at most one else before its close: a second {{else}}
\* to the same block is rejected with an error and emits no further branch flip,
\* while one else, also next to the else of a nested block, compiles.
C25_AtMostOneElse ==
    Ended =>
        \A t \in ElseTakers : \A b \in ElseBodies :
            src = t.open \o b.body \o t.close =>
                /\ b.elses <= 1 => pc = "Ok"
                /\ b.elses = 2 =>
                       /\ pc = "Err"
                       /\ Occurrences(Text(rust.code), "}else{")
                              + Occurrences(Text(rust.code), "} if empty {") <= 1

C25_SecondElseFlipsAgain ==
    /\ src = "{{#if x}}A{{else}}B{{else}}C{{/if}}"
    /\ pc = "Ok"
    /\ Text(rust.code) = "if self.x.as_bool(){write!(f, \"A\")?;}else{write!(f, \"B\")?;}else{write!(f, \"C\")?;}"

\* C26: for every each block the lookahead for an else agrees with the main pass:
\* the wrapper of the emptiness flag is emitted at the open exactly when an else is
\* later given to that block's handle_else before its close; the else of a nested
\* block and the raw interpolation {{{else}}} never set the flag.
C26_LookaheadAgreesWithMainPass ==
    Ended /\ src \in LookaheadTemplates =>
        /\ pc = "Ok"
        /\ Contains(Text(rust.code), "{let mut empty = true;")
               <=> Contains(Text(rust.code), "} if empty {")

C26_RawElseSetsTheFlag ==
    /\ src = "{{#each xs}}A{{{else}}}B{{/each}}"
    /\ pc = "Ok"
    /\ Text(rust.code) = "{let mut empty = true;for this_1 in self.xs{empty = false;write!(f, \"A{}B\", this_1.else.as_display())?;}}"

\* C27: a close tag pops the innermost scope and emits that scope's closing code
\* whatever name the tag carries: {{#if_some_ref x}}A{{/if_some}} compiles, and so
\* does a close under the name of another helper or of none.
C27_CloseIgnoresTheName ==
    Ended =>
        \A s \in CloseScopes : \A i \in CloseInners : \A inner \in CloseNames : \A outer \in CloseNames :
            src = CloseTemplate(s, i, inner, outer) =>
                /\ pc = "Ok"
                /\ Text(rust.code) = s.opening \o i.opening \o i.closing \o s.closing
                /\ Len(open_stack) = 1

C27_ClosedUnderAnotherName ==
    /\ src = "{{#each xs}}{{@index}}A{{#unless \"a\"}}{{/each}}{{/with}}"
    /\ pc = "Ok"
    /\ Text(rust.code) = "let mut i_1 = 0;for this_1 in self.xs{write!(f, \"{}A\", i_1.as_display_html())?;if !\"a\".as_bool(){}i_1+=1;}"
    /\ Len(open_stack) = 1 /\ open_stack[1].opened.kind = "Root"

\* what a body of LocalBodies compiles to when its outer block is bound at depth d
LocalCode(b, d) ==
    LET D == ToString(d)
        E == ToString(d + 1)
        W1(x) == "write!(f, \"{}\", " \o x \o ".as_display_html())?;"
        W2(x, y) == "write!(f, \"{}{}\", " \o x \o ".as_display_html(), " \o y \o ".as_display_html())?;"
    IN  CASE b = "{{#with \"a\"}}{{this}}{{/with}}" ->
             "{let this_" \o D \o " = \"a\";" \o W1("this_" \o D) \o "}"
          [] b = "{{#with \"a\" as |n|}}{{n}}{{n.b}}{{/with}}" ->
             "{let n_" \o D \o " = \"a\";" \o W2("n_" \o D, "n_" \o D \o ".b") \o "}"
          [] b = "{{#each \"a\"}}{{this}}{{@index}}{{/each}}" ->
             "let mut i_" \o D \o " = 0;for this_" \o D \o " in \"a\"{"
                 \o W2("this_" \o D, "i_" \o D) \o "i_" \o D \o "+=1;}"
          [] b = "{{#each \"a\" as |n|}}{{@key}}{{n}}{{/each}}" ->
             "for n_" \o D \o " in \"a\"{" \o W2("n_" \o D \o ".0", "n_" \o D) \o "}"
          [] b = "{{#if_some \"a\" as |n|}}{{n}}{{/if_some}}" ->
             "if let Some(n_" \o D \o ") = \"a\"{" \o W1("n_" \o D) \o "}"
          [] b = "{{#with \"a\"}}{{#with this as |n|}}{{n}}{{../this}}{{/with}}{{this}}{{/with}}" ->
             "{let this_" \o D \o " = \"a\";{let n_" \o E \o " = this_" \o D \o ";"
                 \o W2("n_" \o E, "this_" \o D) \o "}" \o W1("this_" \o D) \o "}"
          [] b = "{{#each \"a\" as |n|}}{{#each n as |n|}}{{n}}{{../n}}{{@../index}}{{/each}}{{n}}{{/each}}" ->
             "let mut i_" \o D \o " = 0;for n_" \o D \o " in \"a\"{for n_" \o E \o " in n_" \o D
                 \o "{write!(f, \"{}{}{}\", n_" \o E \o ".as_display_html(), n_" \o D
                 \o ".as_display_html(), i_" \o D \o ".as_display_html())?;}" \o W1("n_" \o D)
                 \o "i_" \o D \o "+=1;}"
          [] b = "{{#with \"a\"}}{{#if \"b\"}}{{this}}{{/if}}{{/with}}" ->
             "{let this_" \o D \o " = \"a\";if \"b\".as_bool(){" \o W1("this_" \o D) \o "}}"
          [] b = "{{#with \"a\"}}{{this}}{{/with}}{{#with \"b\"}}{{this}}{{/with}}" ->
             "{let this_" \o D \o " = \"a\";" \o W1("this_" \o D) \o "}{let this_" \o D \o " = \"b\";"
                 \o W1("this_" \o D) \o "}"
          [] OTHER ->
             "let mut i_" \o D \o " = 0;for this_" \o D \o " in \"a\"{{let other_" \o E
                 \o " = self.this[i_" \o D \o "];write!(f, \"{}: {}\", this_" \o D
                 \o ".as_display(), other_" \o E \o ".as_display())?;}i_" \o D \o "+=1;}"

\* C28: every rendered reference to a block's local (the named local, this, the
\* index counter) carries the depth suffix of the binding emitted when the block
\* was opened, also in a header resolved before its own scope is pushed, and no
\* two open blocks share a suffix; this holds after any sequence of opens and
\* closes, so also where a close had no open (the compile then fails, or numbers
\* the locals from the depth it is left at).
C28_LocalsCarryTheirDepth ==
    /\ \A i \in 1 .. Len(open_stack) : \A j \in 1 .. Len(open_stack) :
           i # j => open_stack[i].depth # open_stack[j].depth
    /\ \A i \in 1 .. Len(open_stack) :
           open_stack[i].opened.indexer \in {None, Some("i_" \o ToString(open_stack[i].depth))}
    /\ Ended =>
           \A b \in LocalBodies :
               /\ src = b => pc = "Ok" /\ Text(rust.code) = LocalCode(b, 1)
               /\ src = "{{/if}}" \o b =>
                      \/ pc = "Err"
                      \/ pc = "Ok" /\ Text(rust.code) = "}" \o LocalCode(b, 0)

C28_LocalWithoutSuffix ==
    /\ src = "{{/if}}{{#with \"a\"}}{{this}}{{/with}}"
    /\ pc = "Ok"
    /\ Text(rust.code) = "}{let this_0 = \"a\";write!(f, \"{}\", this.as_display_html())?;}"

\* the braces code has opened and not closed
UnclosedBraces(code) == Occurrences(code, "{") - Occurrences(code, "}")

\* C29: in a template whose closes each match an open before them and whose opens
\* are all closed, the braces of the emitted control flow are balanced: a close
\* emits as many closing braces as its block has left open, one for if, unless,
\* if_some, with and an each without else, two for an each with the wrapper of the
\* emptiness flag, whether or not an else was dispatched.
C29_BracesBalanced ==
    src \in BraceTemplates /\ pc # "start" =>
        /\ pc \in {"loop", "Ok"}
        /\ UnclosedBraces(Text(rust.code))
               = Len(open_stack) - 1
                     + Cardinality({i \in 1 .. Len(open_stack) :
                                        /\ open_stack[i].opened.kind = "Each"
                                        /\ open_stack[i].opened.has_else})
        /\ pc = "Ok" => Len(open_stack) = 1

C29_WrapperClosedWithoutElse ==
    /\ src = "{{#each xs}}A{{{else}}}B{{/each}}"
    /\ pc = "Ok"
    /\ open_stack = Compile_new(root_var_name)
    /\ Occurrences(Text(rust.code), "{") = 3
    /\ Occurrences(Text(rust.code), "}") = 3

\* C30: a private variable @name, after its `../` are taken off, compiles only
\* when the scope it selects is a loop and name is index, key or value, key and
\* value being rendered as .0 and .1 of the loop's local at the loop's depth; any
\* other private name, and any private variable that selects the Root, a
\* conditional, an option binding or a context binding, fails with an error.
C30_PrivateOnlyInLoops ==
    Ended =>
        \A bs \in PrivateStacks : \A form \in {"interpolation", "argument"} :
            \A k \in 0 .. 3 : \A name \in PrivateNames :
                src = Nested(bs, Len(bs), PrivateUse(form, k, name)) =>
                    LET j == Len(bs) - k
                        loop == j >= 1 /\ bs[j][1] = "{{#each xs}}"
                    IN  CASE loop /\ name = "index" ->
                                 pc = "Ok" /\ Contains(Text(rust.code), "i_" \o ToString(j) \o ".as_")
                          [] loop /\ name = "key" ->
                                 pc = "Ok" /\ Contains(Text(rust.code), "this_" \o ToString(j) \o ".0.as_")
                          [] loop /\ name = "value" ->
                                 pc = "Ok" /\ Contains(Text(rust.code), "this_" \o ToString(j) \o ".1.as_")
                          [] OTHER -> pc = "Err"

C30_KeyOfTheOuterLoop ==
    /\ src = "{{#each xs}}{{#if x}}{{@../key}}{{/if}}{{/each}}"
    /\ pc = "Ok"
    /\ Text(rust.code) = "for this_1 in self.xs{if this_1.x.as_bool(){write!(f, \"{}\", this_1.0.as_display_html())?;}}"

====
